---- MODULE Spec2Model ----
(***************************************************************************)
(* A model of the Sigma compiler (theogaditya/sigma): the driver           *)
(* (main.cpp), the process-wide ErrorReporter (utils/Error.h) and the IR   *)
(* generator (codegen/CodeGen.cpp).  The IR generator is modelled as the   *)
(* source writes it: one operator per C++ member function, working on a    *)
(* record `g` that holds the CodeGen object's fields together with the     *)
(* part of the llvm::Module / IRBuilder state the generator reads back     *)
(* (the function list, the basic blocks and their instructions, the        *)
(* insertion point).                                                       *)
(***************************************************************************)
EXTENDS Integers, Sequences, FiniteSets, TLC

(***************************************************************************)
(* Bounds of the model.                                                    *)
(***************************************************************************)
\* largest number of statement nodes of a program of loops and jumps
MaxJumpNodes == 3
\* deepest nesting of statements in a program of loops and jumps
MaxJumpDepth == 2
\* largest number of error() calls one abstract lexer / parser run makes
MaxStageErrors == 1
\* largest number of statement nodes of a program of strings and prints
MaxStringNodes == 3
\* deepest nesting of statements in a program of strings and prints
MaxStringDepth == 1
\* largest number of && and || operators of an expression
MaxLogicalOps == 2
\* largest number of statement nodes of a program of declarations and blocks
MaxScopeNodes == 3
\* deepest nesting of statements in a program of declarations and blocks
MaxScopeDepth == 2
\* largest number of statement nodes of a program of function definitions
MaxFuncNodes == 4
\* deepest nesting of statements in a program of function definitions
MaxFuncDepth == 3
\* largest number of statement nodes of a program of assignments
MaxAssignNodes == 3
\* deepest nesting of statements in a program of assignments
MaxAssignDepth == 2
\* largest number of statement nodes of a program of arrays
MaxArrayNodes == 3
\* deepest nesting of statements in a program of arrays
MaxArrayDepth == 2
\* largest number of arms of a switch
MaxSwitchArms == 3
\* largest number of pieces (characters, or numbers of 19 digits) of a source
MaxSourcePieces == 4
\* largest number of nodes of the expressions that the token lists spell
MaxExprNodes == 6
\* largest number of tokens of the statement lists given to the parser
MaxTokens == 5
\* largest number of characters between the quotes of a string literal
MaxRawLen == 5
\* largest number of statements in the body of an edge loop
MaxForBody == 2
\* largest number of entries of the error list
MaxReports == 4
\* largest number of statement nodes of a program of branches and loops
MaxJoinNodes == 4
\* deepest nesting of statements in a program of branches and loops
MaxJoinDepth == 2
\* largest number of statement nodes of a program of compound assignments
MaxCompoundNodes == 3
\* deepest nesting of statements in a program of compound assignments
MaxCompoundDepth == 2

(***************************************************************************)
(* AST (ast/AST.h).  Expressions and statements are records tagged by `k`. *)
(***************************************************************************)
\* a number literal whose value does not matter, and the number literal n
NumLit == [k |-> "num"]
Num(n) == [k |-> "num", n |-> n]
StrLit(s) == [k |-> "str", s |-> s]
Ident(n) == [k |-> "id", name |-> n]
Binary(l, r) == [k |-> "binary", left |-> l, right |-> r]
Grouping(e) == [k |-> "grouping", expression |-> e]
Call(f, as) == [k |-> "call", callee |-> f, arguments |-> as]
Assign(n, v) == [k |-> "assign", name |-> n, value |-> v]
Logical(l, o, r) == [k |-> "logical", left |-> l, op |-> o, right |-> r]
InterpString(sp, ep) == [k |-> "interp", stringParts |-> sp, exprParts |-> ep]
ArrayExpr(es) == [k |-> "array", elements |-> es]
IndexExpr(o, i) == [k |-> "index", object |-> o, index |-> i]
IndexAssignExpr(o, i, v) == [k |-> "indexassign", object |-> o, index |-> i, value |-> v]

NoExpr == [k |-> "noexpr"]
NoStmt == [k |-> "nostmt"]

VarDeclStmt(n, e) == [k |-> "vardecl", name |-> n, initializer |-> e]
PrintStmt(e) == [k |-> "print", expression |-> e]
ExprStmt(e) == [k |-> "expr", expression |-> e]
BlockStmt(ss) == [k |-> "block", statements |-> ss]
IfStmt(c, t, e) == [k |-> "if", condition |-> c, thenBranch |-> t, elseBranch |-> e]
WhileStmt(c, b) == [k |-> "while", condition |-> c, body |-> b]
ForStmt(i, c, n, b) == [k |-> "for", initializer |-> i, condition |-> c, increment |-> n, body |-> b]
FuncDefStmt(n, ps, b) == [k |-> "funcdef", name |-> n, params |-> ps, body |-> b]
ReturnStmt(v) == [k |-> "return", value |-> v]
BreakStmt == [k |-> "break"]
ContinueStmt == [k |-> "continue"]
SwitchCase(v, b, d) == [value |-> v, body |-> b, isDefault |-> d]
SwitchStmt(e, cs) == [k |-> "switch", expression |-> e, cases |-> cs]
TryCatchStmt(t, c) == [k |-> "try", tryBlock |-> t, catchBlock |-> c]

(***************************************************************************)
(* llvm::Value* as the generator sees it: a type and an identity.          *)
(* Instructions are identified by a creation counter; constants, globals   *)
(* and function arguments have negative identities.                        *)
(***************************************************************************)
NullV == [ty |-> "null", id |-> 0]
ConstFP(n) == [ty |-> "double", id |-> 0 - (1 + n)]
ConstNum == [ty |-> "double", id |-> 0 - 9]
GlobalPtr(i) == [ty |-> "ptr", id |-> 0 - (10 + i)]
ArgV(i) == [ty |-> "double", id |-> 0 - (100 + i)]

\* An instruction: id is its identity, a and b are its block or cell
\* operands, va and vb its value operands.  src is the position of the
\* statement being lowered when the instruction was created and tag tells a
\* branch of generateBreak ("mog") or generateContinue ("skip") from the
\* others; both are bookkeeping the generator never reads.
Inst(op, ty) ==
    [id |-> 0, op |-> op, ty |-> ty, a |-> 0, b |-> 0, va |-> 0, vb |-> 0,
     src |-> <<>>, tag |-> ""]

IsTerminator(i) == i.op \in {"br", "condbr", "ret"}

\* the result of an expression generator: the generator state and the value
R(g, v) == [g |-> g, v |-> v]

(***************************************************************************)
(* VariableInfo and the CodeGen object (codegen/CodeGen.h).                *)
(***************************************************************************)
\* C++ sequencing, "auto x = v; rest": v is computed, then the rest F of the
\* function runs with it
Bind(v, F(_)) == IF v = v THEN F(v) ELSE v

VariableInfo(a, t, depth, arrSize) ==
    [allocaInst |-> a, type |-> t, scopeDepth |-> depth, arraySize |-> arrSize]

EmptyMap == [n \in {} |-> 0]

\* std::unordered_map / std::map operator[] assignment
MapPut(m, key, v) == [n \in DOMAIN m \cup {key} |-> IF n = key THEN v ELSE m[n]]

\* CodeGen::pushScope
pushScope(g) ==
    [g EXCEPT !.scopeStack_ = Append(@, EmptyMap),
              !.currentScopeDepth_ = @ + 1]

\* CodeGen::popScope
popScope(g) ==
    IF g.scopeStack_ # <<>>
    THEN [g EXCEPT !.scopeStack_ = SubSeq(@, 1, Len(@) - 1),
                   !.currentScopeDepth_ = @ - 1]
    ELSE g

\* the fields of a CodeGen object before its constructor body runs; cur (the
\* position of the statement being lowered), requested (the contents
\* createGlobalString and getOrCreateFormatString were called with), late
\* (the positions of the statements generateStmt was called for when
\* hadError_ was already set) and scopes (for every statement lowered, the
\* size of scopeStack_ and currentScopeDepth_ at the call of generateStmt and
\* at its return) are bookkeeping the generator never reads
CodeGenFields ==
    [funcs |-> <<>>, blocks |-> <<>>, globals |-> <<>>, ip |-> 0, nextId |-> 1,
     currentFunction_ |-> 0, scopeStack_ |-> <<>>, currentScopeDepth_ |-> 0,
     functions_ |-> EmptyMap, formatStrings_ |-> EmptyMap,
     stringLiterals_ |-> EmptyMap, loopStack_ |-> <<>>, hadError_ |-> FALSE,
     cur |-> <<>>, requested |-> {}, late |-> {}, scopes |-> {}]

\* CodeGen::CodeGen
CodeGen == pushScope(CodeGenFields)

\* CodeGen::error
error(g) == [g EXCEPT !.hadError_ = TRUE]

(***************************************************************************)
(* The part of llvm::Module, llvm::Function, llvm::BasicBlock and          *)
(* llvm::IRBuilder the generator uses.                                     *)
(***************************************************************************)
\* llvm::Function::Create(type, ExternalLinkage, name, module): the module's
\* symbol table keeps names unique, a later function of the same name gets a
\* numeric suffix (dup > 0).  The new function is the last of g.funcs.
FunctionCreate(g, name, ret, nargs, vararg) ==
    LET dup == Cardinality({i \in 1..Len(g.funcs) : g.funcs[i].base = name})
    IN [g EXCEPT !.funcs = Append(@, [base |-> name, dup |-> dup, ret |-> ret,
                                      nargs |-> nargs, vararg |-> vararg,
                                      bbs |-> <<>>])]

\* llvm::Module::getFunction(name): the function whose (unique) name is name,
\* 0 for nullptr
getFunction(g, name) ==
    LET hits == {i \in 1..Len(g.funcs) : g.funcs[i].base = name /\ g.funcs[i].dup = 0}
    IN IF hits = {} THEN 0 ELSE CHOOSE i \in hits : TRUE

\* std::map<std::string, llvm::Function*>::operator[] read: 0 for nullptr
functionsAt(g, name) ==
    IF name \in DOMAIN g.functions_ THEN g.functions_[name] ELSE 0

\* llvm::BasicBlock::Create(context, name, func): the new block is the last of
\* g.blocks; func = 0 leaves it outside every function.  `owner` records the
\* statement whose lowering created the block.
BasicBlockCreate(g, name, func, owner) ==
    LET b == Len(g.blocks) + 1
        g1 == [g EXCEPT !.blocks = Append(@, [name |-> name, parent |-> func,
                                              owner |-> owner, insts |-> <<>>])]
    IN IF func = 0 THEN g1
       ELSE [g1 EXCEPT !.funcs[func].bbs = Append(@, b)]

\* func->insert(func->end(), bb)
FunctionInsert(g, func, b) ==
    [g EXCEPT !.blocks[b].parent = func, !.funcs[func].bbs = Append(@, b)]

\* builder_->SetInsertPoint(bb)
SetInsertPoint(g, b) == [g EXCEPT !.ip = b]

\* builder_->GetInsertBlock()->getParent()
InsertParent(g) == g.blocks[g.ip].parent

\* builder_->Create...: the instruction is appended to the insertion block
Emit(g, i) ==
    [g EXCEPT !.blocks[g.ip].insts = Append(@, [i EXCEPT !.id = g.nextId, !.src = g.cur]),
              !.nextId = @ + 1]

\* builder_->Create... with the value the emitted instruction defines
EmitR(g, i) == R(Emit(g, i), [ty |-> i.ty, id |-> g.nextId])

\* llvm::BasicBlock::getTerminator() # nullptr: the last instruction of the
\* block is a terminator
getTerminator(g, b) ==
    LET insts == g.blocks[b].insts
    IN insts # <<>> /\ IsTerminator(insts[Len(insts)])

\* func->getEntryBlock()
getEntryBlock(g, func) == Head(g.funcs[func].bbs)

\* CodeGen::createEntryBlockAlloca: the alloca goes to the front of the entry
\* block of func
createEntryBlockAlloca(g, func, type) ==
    LET e == getEntryBlock(g, func)
        i == [Inst("alloca", type) EXCEPT !.id = g.nextId, !.src = g.cur]
    IN R([g EXCEPT !.blocks[e].insts = <<i>> \o @, !.nextId = @ + 1],
         [ty |-> "ptr", id |-> g.nextId])

\* CodeGen::getOrCreatePrintf: the index of the function used as printf
getOrCreatePrintf(g) ==
    IF getFunction(g, "printf") # 0 THEN g
    ELSE FunctionCreate(g, "printf", "i32", 1, TRUE)

\* the bookkeeping of a request for a string of content str
Request(g, str) == [g EXCEPT !.requested = @ \cup {str}]

\* new llvm::GlobalVariable(module, type, true, PrivateLinkage, str, name) and
\* the constant GEP to its first element; the pointer is cached
NewGlobalString(g, str) ==
    LET gv == Len(g.globals) + 1
        strPtr == GlobalPtr(gv)
    IN R([g EXCEPT !.globals = Append(@, str),
                   !.stringLiterals_ = MapPut(@, str, strPtr)], strPtr)

\* a createGlobalString that does not look the content up first
createGlobalStringUncached(g, str) == NewGlobalString(Request(g, str), str)

\* CodeGen::createGlobalString
createGlobalString(g, str) ==
    IF str \in DOMAIN g.stringLiterals_
    THEN R(Request(g, str), g.stringLiterals_[str])
    ELSE NewGlobalString(Request(g, str), str)

\* CodeGen::getOrCreateFormatString
getOrCreateFormatString(g, str) ==
    IF str \in DOMAIN g.formatStrings_
    THEN R(Request(g, str), g.formatStrings_[str])
    ELSE LET r == createGlobalString(g, str)
         IN R([r.g EXCEPT !.formatStrings_ = MapPut(@, str, r.v)], r.v)

\* CodeGen::createMainFunction
createMainFunction(g) == FunctionCreate(g, "main", "i32", 0, FALSE)

\* CodeGen::createFCmp
createFCmp(g, left, right) ==
    EmitR(g, [Inst("fcmp", "i1") EXCEPT !.va = left.id, !.vb = right.id])

\* CodeGen::toBool
toBool(g, value) ==
    IF value.ty = "double" THEN createFCmp(g, value, ConstFP(0)) ELSE R(g, value)

\* CodeGen::lookupVariable: the index of the innermost frame that binds name
\* (the returned VariableInfo* points into that frame), 0 for nullptr
lookupVariable(g, name) ==
    LET hits == {i \in 1..Len(g.scopeStack_) : name \in DOMAIN g.scopeStack_[i]}
    IN IF hits = {} THEN 0 ELSE CHOOSE i \in hits : \A j \in hits : j <= i

\* CodeGen::declareVariable
declareVariable(g, name, alloca, type) ==
    IF g.scopeStack_ # <<>>
    THEN [g EXCEPT !.scopeStack_[Len(g.scopeStack_)] =
              MapPut(@, name, VariableInfo(alloca, type, g.currentScopeDepth_, 0))]
    ELSE g

(***************************************************************************)
(* Expression code generation.  Every generator returns R(g, v): the       *)
(* generator state after the call and the llvm::Value* (NullV for nullptr).*)
(***************************************************************************)
RECURSIVE generateExpr(_, _)

\* CodeGen::generateLiteral
generateLiteral(g, expr) ==
    IF expr.k = "str" THEN createGlobalString(g, expr.s)
    ELSE IF "n" \in DOMAIN expr THEN R(g, ConstFP(expr.n))
    ELSE R(g, ConstNum)

\* CodeGen::generateIdentifier
generateIdentifier(g, expr) ==
    LET f == lookupVariable(g, expr.name)
    IN IF f = 0 THEN R(error(g), NullV)
       ELSE LET varInfo == g.scopeStack_[f][expr.name]
            IN IF varInfo.type = "array"
               THEN R(g, [ty |-> "ptr", id |-> varInfo.allocaInst])
               ELSE IF varInfo.type = "string"
               THEN EmitR(g, [Inst("load", "ptr") EXCEPT !.a = varInfo.allocaInst])
               ELSE EmitR(g, [Inst("load", "double") EXCEPT !.a = varInfo.allocaInst])

\* CodeGen::generateBinary (an arithmetic operator)
generateBinary(g, expr) ==
    Bind(generateExpr(g, expr.left), LAMBDA l :
    Bind(generateExpr(l.g, expr.right), LAMBDA r :
    IF l.v = NullV \/ r.v = NullV THEN R(r.g, NullV)
    ELSE EmitR(r.g, Inst("binop", "double"))))

\* CodeGen::generateCall, the loop over expr.arguments
RECURSIVE generateArguments(_, _, _)
generateArguments(g, arguments, i) ==
    IF i > Len(arguments) THEN R(g, ConstNum)
    ELSE Bind(generateExpr(g, arguments[i]), LAMBDA r :
         IF r.v = NullV THEN r
         ELSE generateArguments(r.g, arguments, i + 1))

\* CodeGen::generateCall
generateCall(g, expr) ==
    IF expr.callee.k # "id" THEN R(error(g), NullV)
    ELSE LET funcName == expr.callee.name
             f1 == functionsAt(g, funcName)
             calleeFunc == IF f1 = 0 THEN getFunction(g, funcName) ELSE f1
         IN IF calleeFunc = 0 THEN R(error(g), NullV)
            ELSE IF g.funcs[calleeFunc].nargs # Len(expr.arguments)
            THEN R(error(g), NullV)
            ELSE Bind(generateArguments(g, expr.arguments, 1), LAMBDA r :
                 IF r.v = NullV THEN r
                 ELSE EmitR(r.g, [Inst("call", g.funcs[calleeFunc].ret)
                                      EXCEPT !.a = calleeFunc]))

\* CodeGen::generateGrouping
generateGrouping(g, expr) == generateExpr(g, expr.expression)

\* CodeGen::generateAssign
generateAssign(g, expr) ==
    Bind(generateExpr(g, expr.value), LAMBDA r :
    IF r.v = NullV THEN r
    ELSE
    LET f == lookupVariable(r.g, expr.name)
    IN IF f = 0 THEN R(error(r.g), NullV)
       ELSE
       LET varInfo == r.g.scopeStack_[f][expr.name]
           newType == IF r.v.ty = "ptr" THEN "string" ELSE "number"
           varType == IF r.v.ty = "ptr" THEN "ptr" ELSE "double"
       IN IF varInfo.type # newType
          THEN Bind(createEntryBlockAlloca(r.g, r.g.currentFunction_, varType), LAMBDA al :
               LET g1 == [al.g EXCEPT !.scopeStack_[f][expr.name].allocaInst = al.v.id,
                                      !.scopeStack_[f][expr.name].type = newType]
               IN R(Emit(g1, [Inst("store", r.v.ty) EXCEPT !.a = al.v.id,
                                                           !.va = r.v.id]), r.v))
          ELSE R(Emit(r.g, [Inst("store", r.v.ty) EXCEPT !.a = varInfo.allocaInst,
                                                         !.va = r.v.id]), r.v))

\* a generateLogical that takes the block the right operand starts in for the
\* block it ends in
rhsStartBlock(g, rhsBB) == rhsBB

\* CodeGen::generateCompoundAssign
generateCompoundAssign(g, expr) ==
    LET f == lookupVariable(g, expr.name)
    IN IF f = 0 THEN R(error(g), NullV)
       ELSE
       LET varInfo == g.scopeStack_[f][expr.name]
       IN
       Bind(EmitR(g, [Inst("load", "double") EXCEPT !.a = varInfo.allocaInst]),
            LAMBDA currentVal :
       Bind(generateExpr(currentVal.g, expr.value), LAMBDA rhs :
       IF rhs.v = NullV THEN rhs
       ELSE IF expr.op \notin {"PLUS_EQ", "MINUS_EQ", "STAR_EQ", "SLASH_EQ", "PERCENT_EQ"}
       THEN R(error(rhs.g), NullV)
       ELSE
       Bind(EmitR(rhs.g, Inst("binop", "double")), LAMBDA result :
       R(Emit(result.g, [Inst("store", "double") EXCEPT !.a = varInfo.allocaInst,
                                                        !.va = result.v.id]),
         result.v))))

\* CodeGen::generateIncrement
generateIncrement(g, expr) ==
    LET f == lookupVariable(g, expr.name)
    IN IF f = 0 THEN R(error(g), NullV)
       ELSE
       LET varInfo == g.scopeStack_[f][expr.name]
       IN
       Bind(EmitR(g, [Inst("load", "double") EXCEPT !.a = varInfo.allocaInst]),
            LAMBDA currentVal :
       Bind(EmitR(currentVal.g, Inst("binop", "double")), LAMBDA newVal :
       R(Emit(newVal.g, [Inst("store", "double") EXCEPT !.a = varInfo.allocaInst,
                                                        !.va = newVal.v.id]),
         IF expr.isPrefix THEN newVal.v ELSE currentVal.v)))

\* CodeGen::generateLogical, rhsEndBB = builder_->GetInsertBlock(): the
\* insertion block once the code of the right operand, which started in
\* rhsBB, is emitted
rhsEndBlock(g, rhsBB) == g.ip

\* CodeGen::generateLogical
generateLogical(g, expr) ==
    Bind(generateExpr(g, expr.left), LAMBDA l :
    IF l.v = NullV THEN l
    ELSE
    Bind(toBool(l.g, l.v), LAMBDA lb :
    LET func == InsertParent(l.g)
        entryBB == lb.g.ip
        isOr == expr.op = "OR"
        rhsBB == Len(lb.g.blocks) + 1
        mergeBB == Len(lb.g.blocks) + 2
        g1 == BasicBlockCreate(lb.g, IF isOr THEN "or.rhs" ELSE "and.rhs", func, <<>>)
        g2 == BasicBlockCreate(g1, IF isOr THEN "or.merge" ELSE "and.merge", func, <<>>)
        g3 == Emit(g2, [Inst("condbr", "") EXCEPT
                           !.a = IF isOr THEN mergeBB ELSE rhsBB,
                           !.b = IF isOr THEN rhsBB ELSE mergeBB])
    IN
    Bind(generateExpr(SetInsertPoint(g3, rhsBB), expr.right), LAMBDA r :
    IF r.v = NullV THEN r
    ELSE
    Bind(EmitR(toBool(r.g, r.v).g, Inst("uitofp", "double")), LAMBDA rr :
    LET rhsEndBB == rhsEndBlock(rr.g, rhsBB)
        g4 == Emit(rr.g, [Inst("br", "") EXCEPT !.a = mergeBB])
        phi == [Inst("phi", "double") EXCEPT
                   !.a = entryBB, !.va = ConstFP(IF isOr THEN 1 ELSE 0).id,
                   !.b = rhsEndBB, !.vb = rr.v.id]
    IN EmitR(SetInsertPoint(g4, mergeBB), phi)))))

\* CodeGen::generateInterpString / generateInterpStringPrint, the loop over
\* expr.stringParts: fmt is formatStr, vals the number of collected values
RECURSIVE interpParts(_, _, _, _, _)
interpParts(g, expr, i, fmt, vals) ==
    IF i > Len(expr.stringParts) THEN [g |-> g, fmt |-> fmt, vals |-> vals]
    ELSE LET f1 == fmt \o expr.stringParts[i]
         IN IF i <= Len(expr.exprParts)
            THEN Bind(generateExpr(g, expr.exprParts[i]), LAMBDA r :
                 IF r.v = NullV
                 THEN interpParts(r.g, expr, i + 1, f1, vals)
                 ELSE interpParts(r.g, expr, i + 1,
                          f1 \o (IF r.v.ty = "ptr" THEN "%s" ELSE "%g"), vals + 1))
            ELSE interpParts(g, expr, i + 1, f1, vals)

\* CodeGen::generateInterpString
generateInterpString(g, expr) ==
    Bind(interpParts(g, expr, 1, "", 0), LAMBDA q :
    createGlobalString(q.g, q.fmt))

\* CodeGen::generateArray / generateVarDecl, the loop over the elements of an
\* array literal (of numbers and strings, which are stored unconverted): each
\* value is stored through a GEP into the array at alloca
RECURSIVE arrayElements(_, _, _, _)
arrayElements(g, elements, i, alloca) ==
    IF i > Len(elements) THEN R(g, [ty |-> "ptr", id |-> alloca])
    ELSE Bind(generateExpr(g, elements[i]), LAMBDA r :
         IF r.v = NullV THEN r
         ELSE Bind(EmitR(r.g, [Inst("gep", "ptr") EXCEPT !.a = alloca,
                                                         !.b = Len(elements)]), LAMBDA q :
              arrayElements(Emit(q.g, [Inst("store", r.v.ty) EXCEPT !.a = q.v.id,
                                                                    !.va = r.v.id]),
                            elements, i + 1, alloca)))

\* builder_->CreateAlloca(arrayType, nullptr, name): the array of size
\* elements is allocated at the insertion point
CreateArrayAlloca(g, size) == EmitR(g, [Inst("alloca", "array") EXCEPT !.b = size])

\* CodeGen::generateArray
generateArray(g, expr) ==
    Bind(CreateArrayAlloca(g, Len(expr.elements)), LAMBDA al :
    arrayElements(al.g, expr.elements, 1, al.v.id))

\* CodeGen::generateIndex / generateIndexAssign up to the element pointer:
\* the array variable is looked up, the index is lowered (and for an
\* assignment the value), and the GEP uses the recorded arraySize
elementPtr(g, expr) ==
    IF expr.object.k # "id" THEN R(error(g), NullV)
    ELSE
    LET f == lookupVariable(g, expr.object.name)
    IN IF f = 0 THEN R(error(g), NullV)
       ELSE IF g.scopeStack_[f][expr.object.name].type # "array" THEN R(error(g), NullV)
       ELSE
       Bind(generateExpr(g, expr.index), LAMBDA i :
       IF i.v = NullV THEN i
       ELSE
       Bind(IF expr.k = "indexassign" THEN generateExpr(i.g, expr.value)
            ELSE R(i.g, ConstNum), LAMBDA v :
       IF v.v = NullV THEN v
       ELSE
       Bind(EmitR(Emit(v.g, Inst("fptosi", "i64")),
                  [Inst("gep", "ptr") EXCEPT
                      !.a = v.g.scopeStack_[f][expr.object.name].allocaInst,
                      !.b = v.g.scopeStack_[f][expr.object.name].arraySize]), LAMBDA q :
       [g |-> q.g, v |-> q.v, value |-> v.v])))

\* CodeGen::generateIndex
generateIndex(g, expr) ==
    Bind(elementPtr(g, expr), LAMBDA q :
    IF q.v = NullV THEN q
    ELSE EmitR(q.g, [Inst("load", "double") EXCEPT !.a = q.v.id]))

\* CodeGen::generateIndexAssign
generateIndexAssign(g, expr) ==
    Bind(elementPtr(g, expr), LAMBDA q :
    IF q.v = NullV THEN q
    ELSE R(Emit(q.g, [Inst("store", q.value.ty) EXCEPT !.a = q.v.id,
                                                       !.va = q.value.id]), q.value))

\* CodeGen::generateExpr
generateExpr(g, expr) ==
    CASE expr.k \in {"num", "str"} -> generateLiteral(g, expr)
      [] expr.k = "id" -> generateIdentifier(g, expr)
      [] expr.k = "binary" -> generateBinary(g, expr)
      [] expr.k = "call" -> generateCall(g, expr)
      [] expr.k = "grouping" -> generateGrouping(g, expr)
      [] expr.k = "assign" -> generateAssign(g, expr)
      [] expr.k = "compoundassign" -> generateCompoundAssign(g, expr)
      [] expr.k = "increment" -> generateIncrement(g, expr)
      [] expr.k = "logical" -> generateLogical(g, expr)
      [] expr.k = "interp" -> generateInterpString(g, expr)
      [] expr.k = "array" -> generateArray(g, expr)
      [] expr.k = "index" -> generateIndex(g, expr)
      [] expr.k = "indexassign" -> generateIndexAssign(g, expr)
      [] OTHER -> R(g, NullV)

(***************************************************************************)
(* Statement code generation.  Every generator returns the generator state *)
(* after the call.  The extra argument p is the position of the statement  *)
(* in the program (the path of child indices from the top level): it is    *)
(* what the statement's leading token stands for in the source, and is     *)
(* only recorded, never branched on.                                       *)
(***************************************************************************)
RECURSIVE generateStmt(_, _, _)

\* an insertion block that is never closed with a branch
BrNever(g, b) == g

\* builder_->CreateBr(bb) unless the insertion block already has a terminator
BrUnlessTerminated(g, b) ==
    IF ~getTerminator(g, g.ip) THEN Emit(g, [Inst("br", "") EXCEPT !.a = b]) ELSE g

\* CodeGen::generateVarDecl
generateVarDecl(g, stmt) ==
    IF stmt.initializer.k = "array"
    THEN Bind(CreateArrayAlloca(g, Len(stmt.initializer.elements)), LAMBDA al :
         Bind(arrayElements(al.g, stmt.initializer.elements, 1, al.v.id), LAMBDA r :
         IF r.v = NullV THEN r.g
         ELSE [r.g EXCEPT !.scopeStack_[Len(r.g.scopeStack_)] =
                  MapPut(@, stmt.name,
                         VariableInfo(al.v.id, "array", r.g.currentScopeDepth_,
                                      Len(stmt.initializer.elements)))]))
    ELSE
    Bind(generateExpr(g, stmt.initializer), LAMBDA r :
    IF r.v = NullV THEN r.g
    ELSE
    LET isPtr == r.v.ty = "ptr"
    IN Bind(createEntryBlockAlloca(r.g, r.g.currentFunction_,
                                   IF isPtr THEN "ptr" ELSE "double"), LAMBDA al :
       declareVariable(Emit(al.g, [Inst("store", r.v.ty) EXCEPT !.a = al.v.id,
                                                                !.va = r.v.id]),
                       stmt.name, al.v.id, IF isPtr THEN "string" ELSE "number")))

\* CodeGen::generateInterpStringPrint
generateInterpStringPrint(g, expr) ==
    Bind(getOrCreatePrintf(g), LAMBDA g1 :
    Bind(interpParts(g1, expr, 1, "", 0), LAMBDA q :
    Bind(createGlobalString(q.g, q.fmt \o "\n"), LAMBDA fmtStr :
    Emit(fmtStr.g, [Inst("call", "i32") EXCEPT !.a = getFunction(g1, "printf"),
                                               !.va = fmtStr.v.id]))))

\* CodeGen::generatePrint
generatePrint(g, stmt) ==
    IF stmt.expression.k = "interp"
    THEN generateInterpStringPrint(g, stmt.expression)
    ELSE
    Bind(generateExpr(g, stmt.expression), LAMBDA r :
    IF r.v = NullV THEN r.g
    ELSE
    Bind(getOrCreatePrintf(r.g), LAMBDA g1 :
    Bind(IF r.v.ty = "double" THEN getOrCreateFormatString(g1, "%g\n")
         ELSE IF r.v.ty = "ptr" THEN getOrCreateFormatString(g1, "%s\n")
         ELSE getOrCreateFormatString(g1, "%g\n"), LAMBDA formatStr :
    LET g2 == IF r.v.ty \in {"double", "ptr"} THEN formatStr.g
              ELSE Emit(formatStr.g, Inst("sitofp", "double"))
    IN Emit(g2, [Inst("call", "i32") EXCEPT !.a = getFunction(g1, "printf"),
                                            !.va = formatStr.v.id]))))

\* CodeGen::generateExprStmt
generateExprStmt(g, stmt) == generateExpr(g, stmt.expression).g

\* CodeGen::generateBlock, the loop over stmt.statements
RECURSIVE blockStatements(_, _, _, _)
blockStatements(g, statements, i, p) ==
    IF i > Len(statements) THEN g
    ELSE Bind(generateStmt(g, statements[i], p \o <<i>>), LAMBDA g1 :
         IF g1.hadError_ THEN g1
         ELSE blockStatements(g1, statements, i + 1, p))

\* a generateBlock that returns at the error, before its popScope
generateBlockReturnOnError(g, stmt, p) ==
    Bind(blockStatements(pushScope(g), stmt.statements, 1, p), LAMBDA g1 :
    IF g1.hadError_ THEN g1 ELSE popScope(g1))

\* CodeGen::generateBlock
generateBlock(g, stmt, p) ==
    popScope(blockStatements(pushScope(g), stmt.statements, 1, p))

\* CodeGen::generateIf
generateIf(g, stmt, p) ==
    Bind(generateExpr(g, stmt.condition), LAMBDA c :
    IF c.v = NullV THEN c.g
    ELSE
    Bind(toBool(c.g, c.v), LAMBDA cb :
    LET func == InsertParent(cb.g)
        thenBB == Len(cb.g.blocks) + 1
        elseBB == Len(cb.g.blocks) + 2
        mergeBB == Len(cb.g.blocks) + 3
        hasElse == stmt.elseBranch # NoStmt
        g1 == BasicBlockCreate(cb.g, "then", func, p)
        g2 == BasicBlockCreate(g1, "else", 0, p)
        g3 == BasicBlockCreate(g2, "ifcont", 0, p)
        g4 == Emit(g3, [Inst("condbr", "") EXCEPT
                           !.a = thenBB, !.b = IF hasElse THEN elseBB ELSE mergeBB])
    IN
    Bind(generateStmt(SetInsertPoint(g4, thenBB), stmt.thenBranch, p \o <<1>>), LAMBDA g5 :
    Bind(BrUnlessTerminated(g5, mergeBB), LAMBDA g6 :
    Bind(IF hasElse
         THEN BrUnlessTerminated(
                  generateStmt(SetInsertPoint(FunctionInsert(g6, func, elseBB), elseBB),
                               stmt.elseBranch, p \o <<2>>),
                  mergeBB)
         ELSE g6, LAMBDA g7 :
    SetInsertPoint(FunctionInsert(g7, func, mergeBB), mergeBB))))))

\* loopStack_.push / loopStack_.pop
loopPush(g, cond, after) ==
    [g EXCEPT !.loopStack_ = Append(@, [condBlock |-> cond, afterBlock |-> after])]

loopPop(g) == [g EXCEPT !.loopStack_ = SubSeq(@, 1, Len(@) - 1)]

\* CodeGen::generateWhile
generateWhile(g, stmt, p) ==
    LET func == InsertParent(g)
        condBB == Len(g.blocks) + 1
        loopBB == Len(g.blocks) + 2
        afterBB == Len(g.blocks) + 3
        g1 == BasicBlockCreate(g, "whilecond", func, p)
        g2 == BasicBlockCreate(g1, "whilebody", 0, p)
        g3 == BasicBlockCreate(g2, "whileend", 0, p)
        g4 == loopPush(g3, condBB, afterBB)
        g5 == SetInsertPoint(Emit(g4, [Inst("br", "") EXCEPT !.a = condBB]), condBB)
    IN
    Bind(generateExpr(g5, stmt.condition), LAMBDA c :
    IF c.v = NullV THEN c.g
    ELSE
    LET g6 == Emit(toBool(c.g, c.v).g, [Inst("condbr", "") EXCEPT !.a = loopBB,
                                                                  !.b = afterBB])
    IN
    Bind(generateStmt(SetInsertPoint(FunctionInsert(g6, func, loopBB), loopBB),
                      stmt.body, p \o <<1>>), LAMBDA g7 :
    LET g8 == BrUnlessTerminated(g7, condBB)
    IN loopPop(SetInsertPoint(FunctionInsert(g8, func, afterBB), afterBB))))

\* CodeGen::generateFor
generateFor(g, stmt, p) ==
    Bind(IF stmt.initializer # NoStmt
         THEN generateStmt(g, stmt.initializer, p \o <<0>>) ELSE g, LAMBDA g0 :
    LET func == InsertParent(g)
        condBB == Len(g0.blocks) + 1
        loopBB == Len(g0.blocks) + 2
        incrBB == Len(g0.blocks) + 3
        afterBB == Len(g0.blocks) + 4
        g1 == BasicBlockCreate(g0, "forcond", func, p)
        g2 == BasicBlockCreate(g1, "forbody", 0, p)
        g3 == BasicBlockCreate(g2, "forincr", 0, p)
        g4 == BasicBlockCreate(g3, "forend", 0, p)
        g5 == loopPush(g4, incrBB, afterBB)
        g6 == SetInsertPoint(Emit(g5, [Inst("br", "") EXCEPT !.a = condBB]), condBB)
    IN
    Bind(IF stmt.condition # NoExpr THEN generateExpr(g6, stmt.condition)
         ELSE R(g6, ConstNum), LAMBDA c :
    IF stmt.condition # NoExpr /\ c.v = NullV THEN c.g
    ELSE
    LET g7 == IF stmt.condition # NoExpr
              THEN Emit(toBool(c.g, c.v).g,
                        [Inst("condbr", "") EXCEPT !.a = loopBB, !.b = afterBB])
              ELSE Emit(c.g, [Inst("br", "") EXCEPT !.a = loopBB])
    IN
    Bind(generateStmt(SetInsertPoint(FunctionInsert(g7, func, loopBB), loopBB),
                      stmt.body, p \o <<1>>), LAMBDA g8 :
    Bind(SetInsertPoint(FunctionInsert(BrUnlessTerminated(g8, incrBB), func, incrBB),
                        incrBB), LAMBDA g10 :
    LET g11 == IF stmt.increment # NoExpr
               THEN generateExpr([g10 EXCEPT !.cur = p], stmt.increment).g
               ELSE g10
        g12 == Emit(g11, [Inst("br", "") EXCEPT !.a = condBB])
    IN loopPop(SetInsertPoint(FunctionInsert(g12, func, afterBB), afterBB))))))

\* CodeGen::generateReturn
generateReturn(g, stmt) ==
    IF stmt.value # NoExpr
    THEN Bind(generateExpr(g, stmt.value), LAMBDA r :
         IF r.v # NullV THEN Emit(r.g, [Inst("ret", r.v.ty) EXCEPT !.va = r.v.id])
         ELSE r.g)
    ELSE Emit(g, [Inst("ret", "double") EXCEPT !.va = ConstFP(0).id])

\* CodeGen::generateBreak
generateBreak(g) ==
    IF g.loopStack_ = <<>> THEN error(g)
    ELSE Emit(g, [Inst("br", "") EXCEPT
                     !.a = g.loopStack_[Len(g.loopStack_)].afterBlock, !.tag = "mog"])

\* CodeGen::generateContinue
generateContinue(g) ==
    IF g.loopStack_ = <<>> THEN error(g)
    ELSE Emit(g, [Inst("br", "") EXCEPT
                     !.a = g.loopStack_[Len(g.loopStack_)].condBlock, !.tag = "skip"])

\* llvm::verifyFunction(func) = true (the function is broken).  The rules of
\* the LLVM verifier the generator's output can break: a block without a
\* terminator at its end, a terminator in the middle of a block, a branch to
\* a block of another function (or of none), a return of the wrong type.
verifyFunction(g, func) ==
    \E k \in 1..Len(g.funcs[func].bbs) :
        LET insts == g.blocks[g.funcs[func].bbs[k]].insts
        IN \/ insts = <<>>
           \/ ~IsTerminator(insts[Len(insts)])
           \/ \E j \in 1..Len(insts) :
                 \/ j < Len(insts) /\ IsTerminator(insts[j])
                 \/ insts[j].op \in {"br", "condbr"} /\ g.blocks[insts[j].a].parent # func
                 \/ insts[j].op = "condbr" /\ g.blocks[insts[j].b].parent # func
                 \/ insts[j].op = "ret" /\ insts[j].ty # g.funcs[func].ret

\* llvm::verifyModule(module) = true (the module is broken)
verifyModule(g) ==
    \E f \in 1..Len(g.funcs) : g.funcs[f].bbs # <<>> /\ verifyFunction(g, f)

\* CodeGen::generateFuncDef, the loop over func->args()
RECURSIVE funcParams(_, _, _, _)
funcParams(g, func, params, idx) ==
    IF idx > g.funcs[func].nargs THEN g
    ELSE LET al == createEntryBlockAlloca(g, func, "double")
             g1 == Emit(al.g, [Inst("store", "double") EXCEPT !.a = al.v.id,
                                                             !.va = ArgV(idx).id])
         IN funcParams(declareVariable(g1, params[idx], al.v.id, "number"),
                       func, params, idx + 1)

\* CodeGen::generateFuncDef, the loop over stmt.body
RECURSIVE funcBody(_, _, _, _)
funcBody(g, body, i, p) ==
    IF i > Len(body) THEN g
    ELSE Bind(generateStmt(g, body[i], p \o <<i>>), LAMBDA g1 :
         funcBody(g1, body, i + 1, p))

\* a generateFuncDef that lowers the body where it stands, in a new scope of
\* the current function
generateFuncDefInPlace(g, stmt, p) == funcBody(pushScope(g), stmt.body, 1, p)

\* CodeGen::generateFuncDef
generateFuncDef(g, stmt, p) ==
    LET func == functionsAt(g, stmt.name)
    IN IF func = 0 THEN error(g)
       ELSE
       LET entry == Len(g.blocks) + 1
           g1 == BasicBlockCreate(g, "entry", func, p)
           savedFunc == g.currentFunction_
           savedBlock == g.ip
           savedScopeStack == g.scopeStack_
           savedScopeDepth == g.currentScopeDepth_
           g2 == pushScope([SetInsertPoint(g1, entry) EXCEPT
                               !.currentFunction_ = func,
                               !.scopeStack_ = <<>>,
                               !.currentScopeDepth_ = 0])
       IN
       Bind(funcBody(funcParams(g2, func, stmt.params, 1), stmt.body, 1, p), LAMBDA g4 :
       Bind(IF ~getTerminator(g4, g4.ip)
            THEN Emit(g4, [Inst("ret", "double") EXCEPT !.va = ConstFP(0).id])
            ELSE g4, LAMBDA g5 :
       Bind([(IF verifyFunction(g5, func) THEN error(g5) ELSE g5) EXCEPT
                !.currentFunction_ = savedFunc,
                !.scopeStack_ = savedScopeStack,
                !.currentScopeDepth_ = savedScopeDepth], LAMBDA g7 :
       IF savedBlock # 0 THEN SetInsertPoint(g7, savedBlock) ELSE g7)))

\* CodeGen::generateSwitch, the loop that creates the case blocks: cb is
\* caseBlocks (the value and the block of every non-default case, in source
\* order)
RECURSIVE switchCaseBlocks(_, _, _, _, _, _)
switchCaseBlocks(g, cases, i, func, p, cb) ==
    IF i > Len(cases) THEN [g |-> g, cb |-> cb]
    ELSE IF ~cases[i].isDefault
    THEN Bind(generateExpr(BasicBlockCreate(g, "switch.case", func, p), cases[i].value),
              LAMBDA r :
         switchCaseBlocks(r.g, cases, i + 1, func, p,
                          Append(cb, [first |-> r.v, second |-> Len(g.blocks) + 1])))
    ELSE switchCaseBlocks(g, cases, i + 1, func, p, cb)

\* CodeGen::generateSwitch, the loop that emits the cascading comparisons
RECURSIVE switchCompare(_, _, _, _, _, _, _)
switchCompare(g, switchVal, cb, i, defaultBB, func, p) ==
    IF i > Len(cb) THEN g
    ELSE LET c == createFCmp(g, switchVal, cb[i].first)
             last == i = Len(cb)
             nextBB == IF last THEN defaultBB ELSE Len(c.g.blocks) + 1
             g1 == IF last THEN c.g ELSE BasicBlockCreate(c.g, "switch.next", func, p)
             g2 == Emit(g1, [Inst("condbr", "") EXCEPT !.a = cb[i].second, !.b = nextBB,
                                                       !.va = c.v.id])
         IN switchCompare(SetInsertPoint(g2, nextBB), switchVal, cb, i + 1,
                          defaultBB, func, p)

\* CodeGen::generateSwitch, the loop that emits the case bodies
RECURSIVE switchBodies(_, _, _, _, _, _, _, _)
switchBodies(g, cases, i, caseIdx, cb, defaultBB, mergeBB, p) ==
    IF i > Len(cases) THEN g
    ELSE LET caseBB == IF cases[i].isDefault THEN defaultBB ELSE cb[caseIdx].second
         IN Bind(funcBody(SetInsertPoint(g, caseBB), cases[i].body, 1, p \o <<i>>),
                 LAMBDA g1 :
            switchBodies(BrUnlessTerminated(g1, mergeBB), cases, i + 1,
                         IF cases[i].isDefault THEN caseIdx ELSE caseIdx + 1,
                         cb, defaultBB, mergeBB, p))

\* CodeGen::generateSwitch
generateSwitch(g, stmt, p) ==
    Bind(generateExpr(g, stmt.expression), LAMBDA sv :
    IF sv.v = NullV THEN sv.g
    ELSE
    LET func == InsertParent(sv.g)
        mergeBB == Len(sv.g.blocks) + 1
        hasDefault == \E i \in 1..Len(stmt.cases) : stmt.cases[i].isDefault
        defaultBB == IF hasDefault THEN mergeBB + 1 ELSE mergeBB
        g1 == BasicBlockCreate(sv.g, "switch.end", 0, p)
        g2 == IF hasDefault THEN BasicBlockCreate(g1, "switch.default", func, p) ELSE g1
    IN
    Bind(switchCaseBlocks(g2, stmt.cases, 1, func, p, <<>>), LAMBDA c :
    LET g3 == switchCompare(c.g, sv.v, c.cb, 1, defaultBB, func, p)
        g4 == IF c.cb = <<>> THEN Emit(g3, [Inst("br", "") EXCEPT !.a = defaultBB])
              ELSE g3
    IN
    Bind(switchBodies(g4, stmt.cases, 1, 1, c.cb, defaultBB, mergeBB, p), LAMBDA g5 :
    SetInsertPoint(FunctionInsert(g5, func, mergeBB), mergeBB))))

\* CodeGen::generateTryCatch
generateTryCatch(g, stmt, p) ==
    LET func == InsertParent(g)
        tryBB == Len(g.blocks) + 1
        catchBB == Len(g.blocks) + 2
        endBB == Len(g.blocks) + 3
        g1 == BasicBlockCreate(g, "try", func, p)
        g2 == BasicBlockCreate(g1, "catch", func, p)
        g3 == BasicBlockCreate(g2, "tryend", func, p)
        g4 == Emit(g3, [Inst("br", "") EXCEPT !.a = tryBB])
    IN
    Bind(BrUnlessTerminated(
             generateStmt(SetInsertPoint(g4, tryBB), stmt.tryBlock, p \o <<1>>),
             endBB), LAMBDA g5 :
    Bind(BrUnlessTerminated(
             generateStmt(SetInsertPoint(g5, catchBB), stmt.catchBlock, p \o <<2>>),
             endBB), LAMBDA g6 :
    SetInsertPoint(g6, endBB)))

\* CodeGen::generateStmt, the std::visit over the statement variant
visitStmt(g, stmt, p) ==
    CASE stmt.k = "vardecl" -> generateVarDecl(g, stmt)
      [] stmt.k = "print" -> generatePrint(g, stmt)
      [] stmt.k = "expr" -> generateExprStmt(g, stmt)
      [] stmt.k = "block" -> generateBlock(g, stmt, p)
      [] stmt.k = "if" -> generateIf(g, stmt, p)
      [] stmt.k = "while" -> generateWhile(g, stmt, p)
      [] stmt.k = "for" -> generateFor(g, stmt, p)
      [] stmt.k = "funcdef" -> generateFuncDef(g, stmt, p)
      [] stmt.k = "return" -> generateReturn(g, stmt)
      [] stmt.k = "break" -> generateBreak(g)
      [] stmt.k = "continue" -> generateContinue(g)
      [] stmt.k = "switch" -> generateSwitch(g, stmt, p)
      [] stmt.k = "try" -> generateTryCatch(g, stmt, p)
      [] OTHER -> g

\* CodeGen::generateStmt, with the position bookkeeping: cur becomes p when
\* the lowering of the statement starts
generateStmt(g, stmt, p) ==
    Bind(visitStmt([g EXCEPT !.cur = p,
                             !.late = IF g.hadError_ THEN @ \cup {p} ELSE @], stmt, p),
         LAMBDA r :
    [r EXCEPT !.scopes = @ \cup {[at |-> p,
                                  framesIn |-> Len(g.scopeStack_),
                                  depthIn |-> g.currentScopeDepth_,
                                  framesOut |-> Len(r.scopeStack_),
                                  depthOut |-> r.currentScopeDepth_]}])

(***************************************************************************)
(* CodeGen::generate, in three parts: the first pass and the creation of   *)
(* main, one iteration of the second pass, and the tail after the loop.    *)
(***************************************************************************)
\* CodeGen::generate, first pass: the loop over program
RECURSIVE declareFunctions(_, _, _)
declareFunctions(g, program, i) ==
    IF i > Len(program) THEN g
    ELSE IF program[i].k = "funcdef"
    THEN LET g1 == FunctionCreate(g, program[i].name, "double",
                                  Len(program[i].params), FALSE)
         IN declareFunctions([g1 EXCEPT !.functions_ =
                                  MapPut(@, program[i].name, Len(g1.funcs))],
                             program, i + 1)
    ELSE declareFunctions(g, program, i + 1)

\* CodeGen::generate up to the second pass
generateBegin(g, program) ==
    Bind(createMainFunction(declareFunctions(g, program, 1)), LAMBDA g1 :
    LET mainFunc == Len(g1.funcs)
        entry == Len(g1.blocks) + 1
        g2 == BasicBlockCreate(g1, "entry", mainFunc, <<>>)
    IN [SetInsertPoint(g2, entry) EXCEPT !.currentFunction_ = mainFunc])

\* CodeGen::generate after the second pass: the generator state and the
\* returned bool
generateEnd(g) ==
    LET g1 == Emit(g, [Inst("ret", "i32") EXCEPT !.va = 0])
    IN IF verifyModule(g1) THEN [g |-> error(g1), ok |-> FALSE]
       ELSE [g |-> g1, ok |-> ~g1.hadError_]

\* CodeGen::generate, the second pass from statement i on, then the tail
RECURSIVE generatePass2(_, _, _)
generatePass2(g, program, i) ==
    IF i > Len(program) THEN generateEnd(g)
    ELSE Bind(generateStmt(g, program[i], <<i>>), LAMBDA g1 :
         IF g1.hadError_ THEN [g |-> g1, ok |-> FALSE]
         ELSE generatePass2(g1, program, i + 1))

\* CodeGen::generate
generate(g, program) == generatePass2(generateBegin(g, program), program, 1)

(***************************************************************************)
(* ErrorReporter (utils/Error.h): the static error list and flags.         *)
(***************************************************************************)
\* the static members as initialised
ErrorReporter == [errors_ |-> <<>>, hadError_ |-> FALSE, hadRuntimeError_ |-> FALSE]

\* ErrorReporter::lexerError
lexerError(rep) ==
    [rep EXCEPT !.errors_ = Append(@, "LEXER_ERROR"), !.hadError_ = TRUE]

\* ErrorReporter::parserError
parserError(rep) ==
    [rep EXCEPT !.errors_ = Append(@, "PARSER_ERROR"), !.hadError_ = TRUE]

\* ErrorReporter::semanticError
semanticError(rep) ==
    [rep EXCEPT !.errors_ = Append(@, "SEMANTIC_ERROR"), !.hadError_ = TRUE]

\* a runtime error that sets the flag of the other errors
runtimeErrorAsError(rep) ==
    [rep EXCEPT !.errors_ = Append(@, "RUNTIME_ERROR"), !.hadError_ = TRUE]

\* ErrorReporter::runtimeError
runtimeError(rep) ==
    [rep EXCEPT !.errors_ = Append(@, "RUNTIME_ERROR"), !.hadRuntimeError_ = TRUE]

\* ErrorReporter::report, the legacy interface: a line on stderr and the flag
report(rep) == [rep EXCEPT !.hadError_ = TRUE]

\* ErrorReporter::hadRuntimeError
hadRuntimeError(rep) == rep.hadRuntimeError_

\* ErrorReporter::errorCount
errorCount(rep) == Len(rep.errors_)

\* ErrorReporter::hadError
hadError(rep) == rep.hadError_

\* ErrorReporter::reset
reset(rep) == [errors_ |-> <<>>, hadError_ |-> FALSE, hadRuntimeError_ |-> FALSE]

(***************************************************************************)
(* The stages as the driver sees them.  A source file is given by the      *)
(* number of times the lexer and the parser call their error() on it and   *)
(* by the AST the parser returns (the variable program).                   *)
(***************************************************************************)
\* Lexer::error, n times: each call reports to the ErrorReporter
RECURSIVE LexerErrors(_, _)
LexerErrors(rep, n) == IF n = 0 THEN rep ELSE LexerErrors(lexerError(rep), n - 1)

\* Parser::error, n times: each call reports to the ErrorReporter
RECURSIVE ParserErrors(_, _)
ParserErrors(rep, n) == IF n = 0 THEN rep ELSE ParserErrors(parserError(rep), n - 1)

\* Lexer::scanTokens: the ErrorReporter afterwards and the lexer's hadError_
scanTokens(rep, source) ==
    [rep |-> LexerErrors(rep, source.lexErrors), hadError_ |-> source.lexErrors > 0]

\* Parser::parse: the ErrorReporter afterwards and the parser's hadError_
parse(rep, source) ==
    [rep |-> ParserErrors(rep, source.parseErrors), hadError_ |-> source.parseErrors > 0]

\* a hasError() that never tells of an error
hasErrorNever(stage) == FALSE

\* Lexer::hasError, Parser::hasError, CodeGen::hasError
hasError(stage) == stage.hadError_

\* what is recorded of a stage object once it has run: its hadError_
Status(stage) == IF stage.hadError_ THEN "error" ELSE "ok"

\* The locals of a compile path: the stage objects, whether the IR text was
\* printed or written for the toolchain (irOut), and the value returned.
PathLocals ==
    [lexer |-> "none", parser |-> "none", codegen |-> "none", generated |-> FALSE,
     irOut |-> FALSE, ret |-> 0]

\* the result of a compile path: the ErrorReporter and the locals
Path(rep, l) == [rep |-> rep, l |-> l]

\* run(source, filename, false, false, emitIR)
run(rep, source, prog, emitIR) ==
    LET lexer == scanTokens(reset(rep), source)
        l1 == [PathLocals EXCEPT !.lexer = Status(lexer)]
    IN IF hasError(lexer) THEN Path(lexer.rep, l1)
       ELSE
       LET parser == parse(lexer.rep, source)
           l2 == [l1 EXCEPT !.parser = Status(parser)]
       IN IF hasError(parser) THEN Path(parser.rep, l2)
          ELSE IF emitIR
          THEN Bind(generate(CodeGen, prog), LAMBDA codegen :
               Path(parser.rep, [l2 EXCEPT !.codegen = Status(codegen.g),
                                           !.generated = codegen.ok,
                                           !.irOut = codegen.ok]))
          ELSE Path(parser.rep, l2)

\* compileAndRun and compileToFile from the code generation step on: tools
\* tells how the environment answers (no temp directory, IR file not
\* writable, no compiler found, compilation fails, or works), status is the
\* exit status of the compiled program
toolchain(l, tools, status, execute) ==
    IF tools = "notemp" THEN [l EXCEPT !.ret = 1]
    ELSE IF tools = "nowrite" THEN [l EXCEPT !.ret = 1]
    ELSE IF tools = "none" THEN [l EXCEPT !.irOut = TRUE, !.ret = 1]
    ELSE IF tools = "fail" THEN [l EXCEPT !.irOut = TRUE, !.ret = 1]
    ELSE [l EXCEPT !.irOut = TRUE, !.ret = IF execute THEN status ELSE 0]

\* compileAndRun (execute) and compileToFile (~execute)
compile(rep, source, prog, tools, status, execute) ==
    LET lexer == scanTokens(reset(rep), source)
        l1 == [PathLocals EXCEPT !.lexer = Status(lexer)]
    IN IF hasError(lexer) THEN Path(lexer.rep, [l1 EXCEPT !.ret = 1])
       ELSE
       LET parser == parse(lexer.rep, source)
           l2 == [l1 EXCEPT !.parser = Status(parser)]
       IN IF hasError(parser) THEN Path(parser.rep, [l2 EXCEPT !.ret = 1])
          ELSE
          Bind(generate(CodeGen, prog), LAMBDA codegen :
          LET l3 == [l2 EXCEPT !.codegen = Status(codegen.g), !.generated = codegen.ok]
          IN IF ~codegen.ok THEN Path(parser.rep, [l3 EXCEPT !.ret = 1])
             ELSE Path(parser.rep, toolchain(l3, tools, status, execute)))

\* compileAndRun
compileAndRun(rep, source, prog, tools, status) ==
    compile(rep, source, prog, tools, status, TRUE)

\* compileToFile
compileToFile(rep, source, prog, tools, status) ==
    compile(rep, source, prog, tools, status, FALSE)

(***************************************************************************)
(* main: the command line, the --tokens and --ast blocks, the dispatch.    *)
(***************************************************************************)
\* the locals of main before the argument loop; ret < 0: not decided.
\* stageError records that some stage object of this run had hasError().
MainLocals ==
    [pc |-> "args", showTokens |-> FALSE, showAST |-> FALSE, emitIR |-> FALSE,
     runProgram |-> FALSE, compileOnly |-> FALSE, explicitMode |-> FALSE,
     filename |-> "", exit |-> 0 - 1,
     lexer |-> "none", parser |-> "none", codegen |-> "none", generated |-> FALSE,
     irOut |-> FALSE, stageError |-> FALSE]

\* main, the argument loop from argv[i] on: the flags, or the early return
RECURSIVE parseArgs(_, _, _)
parseArgs(m, argv, i) ==
    IF i > Len(argv) THEN m
    ELSE LET arg == argv[i]
         IN IF arg = "--tokens" THEN parseArgs([m EXCEPT !.showTokens = TRUE], argv, i + 1)
            ELSE IF arg = "--ast" THEN parseArgs([m EXCEPT !.showAST = TRUE], argv, i + 1)
            ELSE IF arg = "--emit-ir"
            THEN parseArgs([m EXCEPT !.emitIR = TRUE, !.explicitMode = TRUE], argv, i + 1)
            ELSE IF arg = "--run"
            THEN parseArgs([m EXCEPT !.runProgram = TRUE, !.explicitMode = TRUE], argv, i + 1)
            ELSE IF arg = "-o"
            THEN IF i + 1 <= Len(argv)
                 THEN parseArgs([m EXCEPT !.compileOnly = TRUE, !.explicitMode = TRUE],
                                argv, i + 2)
                 ELSE [m EXCEPT !.exit = 1]
            ELSE IF arg = "--no-ir"
            THEN parseArgs([m EXCEPT !.emitIR = FALSE, !.explicitMode = TRUE], argv, i + 1)
            ELSE IF arg = "--help" THEN [m EXCEPT !.exit = 0]
            ELSE IF arg = "--bad" THEN [m EXCEPT !.exit = 1]
            ELSE parseArgs([m EXCEPT !.filename = arg], argv, i + 1)

\* the record of the stage objects of a compile path in main's state
Ran(m, l) ==
    [m EXCEPT !.lexer = l.lexer, !.parser = l.parser, !.codegen = l.codegen,
              !.generated = l.generated, !.irOut = l.irOut,
              !.stageError = @ \/ "error" \in {l.lexer, l.parser, l.codegen}]

\* main, the --tokens block: the lexer runs on the ErrorReporter as it is
tokensBlock(rep, source) ==
    LET lexer == scanTokens(rep, source)
    IN Path(lexer.rep, [PathLocals EXCEPT !.lexer = Status(lexer)])

\* main, the --ast block
astBlock(rep, source) ==
    LET lexer == scanTokens(reset(rep), source)
        l1 == [PathLocals EXCEPT !.lexer = Status(lexer)]
    IN IF ~hasError(lexer)
       THEN LET parser == parse(lexer.rep, source)
            IN Path(parser.rep, [l1 EXCEPT !.parser = Status(parser)])
       ELSE Path(lexer.rep, l1)

\* the environment of an idle driver
NoEnv ==
    [readable |-> FALSE, lexErrors |-> 0, parseErrors |-> 0, tools |-> "none",
     status |-> 0]

(***************************************************************************)
(* The lexer (lexer/Lexer.cpp).  A source is a sequence of characters; lx  *)
(* holds the fields of the Lexer object, pc tells whether scanTokens is    *)
(* running, has returned or was left by an exception, and errors counts    *)
(* the calls of Lexer::error (each one calls ErrorReporter::lexerError).   *)
(* A token keeps, besides its type and line, the offset `at` of its first  *)
(* character, which the lexer does not store.                              *)
(***************************************************************************)
\* Lexer::Lexer
Lexer(source) ==
    [source_ |-> source, tokens_ |-> <<>>, start_ |-> 0, current_ |-> 0, line_ |-> 1,
     hadError_ |-> FALSE, pc |-> "scan", errors |-> 0]

\* Lexer::isDigit, Lexer::isAlpha (over the letters the sources use)
isDigit(c) == c \in {"0", "1", "2", "3", "4", "5", "6", "7", "8", "9"}
isAlpha(c) == c \in {"a", "f", "r", "_"}

\* Lexer::isAtEnd
isAtEnd(lx) == lx.current_ >= Len(lx.source_)

\* Lexer::peek, Lexer::peekNext ("" stands for the character '\0')
peek(lx) == IF isAtEnd(lx) THEN "" ELSE lx.source_[lx.current_ + 1]
peekNext(lx) ==
    IF lx.current_ + 1 >= Len(lx.source_) THEN "" ELSE lx.source_[lx.current_ + 2]

\* Lexer::match
match(lx, expected) ==
    IF isAtEnd(lx) \/ lx.source_[lx.current_ + 1] # expected THEN lx
    ELSE [lx EXCEPT !.current_ = @ + 1]

\* Lexer::addToken
addToken(lx, type) ==
    [lx EXCEPT !.tokens_ = Append(@, [type |-> type, line |-> lx.line_, at |-> lx.start_])]

\* Lexer::addToken(type, literal), for the tokens whose literal the parser
\* reads
addTokenLiteral(lx, type, literal) ==
    [lx EXCEPT !.tokens_ = Append(@, [type |-> type, line |-> lx.line_, at |-> lx.start_,
                                      literal |-> literal])]

\* Lexer::error
Lexer_error(lx) == [lx EXCEPT !.hadError_ = TRUE, !.errors = @ + 1]

\* while (peek() is in S) advance(), with the line_++ of scanString at every
\* newline passed
RECURSIVE advanceWhile(_, _)
advanceWhile(lx, S) ==
    IF isAtEnd(lx) \/ peek(lx) \notin S THEN lx
    ELSE advanceWhile([lx EXCEPT !.current_ = @ + 1,
                                 !.line_ = IF peek(lx) = "\n" THEN @ + 1 ELSE @], S)

\* the characters of the sources
Chars == {"a", "f", "r", "\"", "\n", "@", ".", " ", "{", "}", "=", "#",
          "0", "1", "2", "3", "4", "5", "6", "7", "8", "9"}

\* Lexer::scanString
scanString(lx) ==
    Bind(advanceWhile(lx, Chars \ {"\""}), LAMBDA l1 :
    IF isAtEnd(l1) THEN Lexer_error(l1)
    ELSE LET value == SubSeq(l1.source_, l1.start_ + 2, l1.current_)
             hasInterpolation ==
                 \E i \in 1..Len(value) : \E j \in (i + 1)..Len(value) :
                     value[i] = "{" /\ value[j] = "}"
         IN addTokenLiteral([l1 EXCEPT !.current_ = @ + 1],
                            IF hasInterpolation THEN "INTERP_STRING" ELSE "STRING",
                            value))

\* the digits of the largest int64_t, 9223372036854775807
I64Max ==
    <<"9", "2", "2", "3", "3", "7", "2", "0", "3", "6", "8", "5", "4", "7", "7", "5",
      "8", "0", "7">>

\* the value of a digit
DigitValue(c) == CHOOSE n \in 0..9 : <<"0", "1", "2", "3", "4", "5", "6", "7", "8", "9">>[n + 1] = c

\* whether the digits s denote a greater number than the digits t, for s and
\* t of one length
RECURSIVE DigitsGreater(_, _)
DigitsGreater(s, t) ==
    IF s = <<>> THEN FALSE
    ELSE IF Head(s) # Head(t) THEN DigitValue(Head(s)) > DigitValue(Head(t))
    ELSE DigitsGreater(Tail(s), Tail(t))

\* the digits s without their leading zeros
RECURSIVE StripZeros(_)
StripZeros(s) == IF s # <<>> /\ Head(s) = "0" THEN StripZeros(Tail(s)) ELSE s

\* std::stoll on a run of digits: whether it throws std::out_of_range
stollThrows(numStr) ==
    LET d == StripZeros(numStr)
    IN Len(d) > Len(I64Max) \/ (Len(d) = Len(I64Max) /\ DigitsGreater(d, I64Max))

\* Lexer::scanNumber (std::stod does not throw on the numbers of the sources:
\* they stay far below the largest double)
scanNumber(lx) ==
    Bind(advanceWhile(lx, {c \in Chars : isDigit(c)}), LAMBDA l1 :
    IF peek(l1) = "." /\ isDigit(peekNext(l1))
    THEN addToken(advanceWhile([l1 EXCEPT !.current_ = @ + 1], {c \in Chars : isDigit(c)}),
                  "NUMBER")
    ELSE IF stollThrows(SubSeq(l1.source_, l1.start_ + 1, l1.current_))
    THEN [l1 EXCEPT !.pc = "thrown"]
    ELSE addToken(l1, "NUMBER"))

\* the keywords_ table, as far as the sources can spell it
keywords_ == {<<"f", "r">>}

\* Lexer::scanIdentifier
scanIdentifier(lx) ==
    Bind(advanceWhile(lx, {c \in Chars : isAlpha(c) \/ isDigit(c)}), LAMBDA l1 :
    IF SubSeq(l1.source_, l1.start_ + 1, l1.current_) \in keywords_
    THEN addToken(l1, "FR")
    ELSE addToken(l1, "IDENTIFIER"))

\* Lexer::skipComment
skipComment(lx) == advanceWhile(lx, Chars \ {"\n"})

\* Lexer::scanToken, for the characters of the sources
scanToken(lx) ==
    LET c == lx.source_[lx.current_ + 1]
        l0 == [lx EXCEPT !.current_ = @ + 1]
    IN CASE c = "{" -> addToken(l0, "LBRACE")
         [] c = "}" -> addToken(l0, "RBRACE")
         [] c = "=" -> addToken(match(l0, "="),
                                IF peek(l0) = "=" THEN "EQ" ELSE "ASSIGN")
         [] c = "#" -> skipComment(l0)
         [] c = " " -> l0
         [] c = "\n" -> [l0 EXCEPT !.line_ = @ + 1]
         [] c = "\"" -> scanString(l0)
         [] OTHER -> IF isDigit(c) THEN scanNumber(l0)
                     ELSE IF isAlpha(c) THEN scanIdentifier(l0)
                     ELSE Lexer_error(l0)

(***************************************************************************)
(* The parser (parser/Parser.cpp).  A token is its type; ps holds the      *)
(* fields of the Parser object, errors the calls of Parser::error (the     *)
(* position of the token and the message), and thrown tells that a         *)
(* ParseError is on its way to the handler in parse().  badPrevious records *)
(* a call of previous() with the cursor at 0, literals the literal of each *)
(* token that was made with one.  Every parsing function returns the       *)
(* parser and the node, PE(ps, e).                                         *)
(***************************************************************************)
\* Parser::Parser
Parser(tokens) ==
    [tokens_ |-> tokens, current_ |-> 0, hadError_ |-> FALSE, errors |-> <<>>,
     thrown |-> FALSE, stalled |-> FALSE, badPrevious |-> FALSE,
     literals |-> <<>>, statements |-> <<>>, pc |-> "parse"]

PE(ps, e) == [p |-> ps, e |-> e]

\* the nodes of AST.h that carry an operator, and the literal of a token
BinaryOp(l, o, r) == [k |-> "binary", left |-> l, op |-> o, right |-> r]
Unary(o, r) == [k |-> "unary", op |-> o, operand |-> r]
Increment(n, o, prefix) == [k |-> "increment", name |-> n, op |-> o, isPrefix |-> prefix]
CompoundAssign(n, o, v) == [k |-> "compoundassign", name |-> n, op |-> o, value |-> v]
Literal(t) == [k |-> "literal", type |-> t]

\* Parser::peek, Parser::isAtEnd, Parser::advance, Parser::check (of one of
\* the types T, as match tests them)
Parser_peek(ps) == ps.tokens_[ps.current_ + 1]
Parser_isAtEnd(ps) == Parser_peek(ps) = "END_OF_FILE"
Parser_advance(ps) ==
    IF Parser_isAtEnd(ps) THEN [ps EXCEPT !.badPrevious = @ \/ ps.current_ = 0]
    ELSE [ps EXCEPT !.current_ = @ + 1]
Parser_check(ps, T) == ~Parser_isAtEnd(ps) /\ Parser_peek(ps) \in T

\* an error that is thrown wherever it is reported
Parser_errorThrown(ps, at, message) ==
    [ps EXCEPT !.hadError_ = TRUE, !.thrown = TRUE,
               !.errors = Append(@, [at |-> at, message |-> message])]

\* Parser::error at the token of position at; throw error(...)
Parser_error(ps, at, message) ==
    [ps EXCEPT !.hadError_ = TRUE, !.errors = Append(@, [at |-> at, message |-> message])]
ThrowError(ps, message) ==
    [Parser_error(ps, ps.current_ + 1, message) EXCEPT !.thrown = TRUE]

\* Parser::consume
consume(ps, type, message) ==
    IF Parser_check(ps, {type}) THEN Parser_advance(ps) ELSE ThrowError(ps, message)

\* the operators of logicalOr, logicalAnd, bitwiseOr, bitwiseXor, bitwiseAnd,
\* equality, comparison, shift, term and factor, in this order
LevelOps ==
    <<{"OR"}, {"AND"}, {"BIT_OR"}, {"BIT_XOR"}, {"BIT_AND"}, {"EQ", "NEQ"},
      {"LT", "GT", "LEQ", "GEQ"}, {"LSHIFT", "RSHIFT"}, {"PLUS", "MINUS"},
      {"STAR", "SLASH", "PERCENT"}>>

RECURSIVE binaryLevel(_, _), levelLoops(_, _, _), binaryLoop(_, _, _), unary(_), call(_), callLoop(_, _),
          expressionList(_, _, _, _), primary(_), assignment(_)

\* Parser::expression
expression(ps) == assignment(ps)

\* the function that a function of a level calls for its operands
operand(ps, level) == IF level = Len(LevelOps) THEN unary(ps) ELSE binaryLevel(ps, level + 1)

\* Parser::logicalOr (level 1) ... Parser::factor (level 10).  Each function
\* starts by calling the next one, down to unary(), and then runs its loop
\* on what that call returned: unary() first, then the loops of the levels
\* from factor's up to this one, a ParseError ending them all.
binaryLevel(ps, level) == levelLoops(unary(ps), Len(LevelOps), level)

\* the loops of the levels from l up to level, r being the first operand
levelLoops(r, l, level) ==
    IF r.p.thrown THEN r
    ELSE IF l = level THEN binaryLoop(r.p, r.e, l)
    ELSE levelLoops(binaryLoop(r.p, r.e, l), l - 1, level)

\* the loop as a recursion on the right operand, which makes the operators
\* of a level associate to the right
binaryLoopRight(ps, expr, level) ==
    IF ~Parser_check(ps, LevelOps[level]) THEN PE(ps, expr)
    ELSE Bind(binaryLevel(Parser_advance(ps), level), LAMBDA r :
         IF r.p.thrown THEN r
         ELSE PE(r.p, IF level <= 2 THEN Logical(expr, Parser_peek(ps), r.e)
                      ELSE BinaryOp(expr, Parser_peek(ps), r.e)))

\* while (match(the operators of the level)) { right = operand; expr = node }
binaryLoop(ps, expr, level) ==
    IF ~Parser_check(ps, LevelOps[level]) THEN PE(ps, expr)
    ELSE Bind(operand(Parser_advance(ps), level), LAMBDA r :
         IF r.p.thrown THEN r
         ELSE binaryLoop(r.p,
                         IF level <= 2 THEN Logical(expr, Parser_peek(ps), r.e)
                         ELSE BinaryOp(expr, Parser_peek(ps), r.e),
                         level))

logicalOr(ps) == binaryLevel(ps, 1)

\* Parser::postfix
postfix(ps) ==
    Bind(call(ps), LAMBDA r :
    IF r.p.thrown \/ ~Parser_check(r.p, {"PLUS_PLUS", "MINUS_MINUS"}) THEN r
    ELSE IF r.e.k = "id" THEN PE(Parser_advance(r.p),
                                  Increment(r.e.name, Parser_peek(r.p), FALSE))
    ELSE PE(Parser_error(Parser_advance(r.p), r.p.current_ + 1,
                         "Invalid increment/decrement target."), r.e))

\* Parser::unary
unary(ps) ==
    IF Parser_check(ps, {"MINUS", "NOT", "BIT_NOT"})
    THEN Bind(unary(Parser_advance(ps)), LAMBDA r :
         IF r.p.thrown THEN r ELSE PE(r.p, Unary(Parser_peek(ps), r.e)))
    ELSE IF Parser_check(ps, {"PLUS_PLUS", "MINUS_MINUS"})
    THEN Bind(Parser_advance(ps), LAMBDA p1 :
         IF Parser_check(p1, {"IDENTIFIER"})
         THEN PE(Parser_advance(p1), Increment(Parser_peek(p1), Parser_peek(ps), TRUE))
         ELSE PE(ThrowError(p1, "Expected variable name."), NoExpr))
    ELSE postfix(ps)

\* if (!check(closing)) do { list.push_back(expression()); } while
\* (match(COMMA)), then consume(closing, message): the arguments of a call and
\* the elements of an array literal (no input has the 255 arguments that
\* finishCall reports)
expressionList(ps, list, closing, message) ==
    IF list = <<>> /\ Parser_check(ps, {closing}) THEN PE(Parser_advance(ps), list)
    ELSE Bind(expression(ps), LAMBDA r :
         IF r.p.thrown THEN r
         ELSE IF Parser_check(r.p, {"COMMA"})
         THEN expressionList(Parser_advance(r.p), Append(list, r.e), closing, message)
         ELSE PE(consume(r.p, closing, message), Append(list, r.e)))

\* Parser::finishCall
finishCall(ps, callee) ==
    Bind(expressionList(ps, <<>>, "RPAREN", "Expected ')' after arguments."), LAMBDA r :
    IF r.p.thrown THEN r ELSE PE(r.p, Call(callee, r.e)))

\* Parser::call: the primary expression, then the loop
call(ps) ==
    Bind(primary(ps), LAMBDA r : IF r.p.thrown THEN r ELSE callLoop(r.p, r.e))

\* while (true): ( starts a call, [ an index, anything else ends the loop
callLoop(ps, expr) ==
    IF Parser_check(ps, {"LPAREN"})
    THEN Bind(finishCall(Parser_advance(ps), expr), LAMBDA r :
         IF r.p.thrown THEN r ELSE callLoop(r.p, r.e))
    ELSE IF Parser_check(ps, {"LBRACKET"})
    THEN Bind(expression(Parser_advance(ps)), LAMBDA r :
         IF r.p.thrown THEN r
         ELSE Bind(consume(r.p, "RBRACKET", "Expected ']' after index."), LAMBDA p1 :
              IF p1.thrown THEN PE(p1, NoExpr) ELSE callLoop(p1, IndexExpr(expr, r.e))))
    ELSE PE(ps, expr)

\* std::string::find from position pos (counted from 0): the position of the
\* first c, or Len(raw) for npos
RECURSIVE find(_, _, _)
find(raw, c, pos) ==
    IF pos >= Len(raw) THEN Len(raw)
    ELSE IF raw[pos + 1] = c THEN pos
    ELSE find(raw, c, pos + 1)

\* the trimming of a variable name: find_first_not_of and find_last_not_of
\* blanks; a name of blanks only is left as it is
trim(varName) ==
    LET inside == {i \in 1..Len(varName) : varName[i] \notin {" ", "\t"}}
    IN IF inside = {} THEN varName
       ELSE SubSeq(varName, CHOOSE i \in inside : \A j \in inside : i <= j,
                            CHOOSE i \in inside : \A j \in inside : i >= j)

\* the loop of Parser::parseInterpString: the parts so far, and whether an
\* interpolation without its closing brace was met
RECURSIVE interpLoop(_, _, _, _)
interpLoop(raw, pos, stringParts, exprParts) ==
    IF pos >= Len(raw)
    THEN [stringParts |-> stringParts, exprParts |-> exprParts, thrown |-> FALSE]
    ELSE Bind(find(raw, "{", pos), LAMBDA braceStart :
         IF braceStart = Len(raw)
         THEN [stringParts |-> Append(stringParts, SubSeq(raw, pos + 1, Len(raw))),
               exprParts |-> exprParts, thrown |-> FALSE]
         ELSE Bind(find(raw, "}", braceStart), LAMBDA braceEnd :
              IF braceEnd = Len(raw)
              THEN [stringParts |-> Append(stringParts, SubSeq(raw, pos + 1, braceStart)),
                    exprParts |-> exprParts, thrown |-> TRUE]
              ELSE interpLoop(raw, braceEnd + 1,
                              Append(stringParts, SubSeq(raw, pos + 1, braceStart)),
                              Append(exprParts,
                                     Ident(trim(SubSeq(raw, braceStart + 2, braceEnd)))))))

\* only the first of the two paddings: one empty string when there is none
padStringPartsIfEmpty(stringParts, exprParts) ==
    IF stringParts = <<>> THEN <<<<>>>> ELSE stringParts

\* the end of Parser::parseInterpString: an empty string if there is none,
\* and empty strings until there is one string more than there are
\* expressions (which covers the first)
RECURSIVE padStringParts(_, _)
padStringParts(stringParts, exprParts) ==
    IF Len(stringParts) <= Len(exprParts)
    THEN padStringParts(Append(stringParts, <<>>), exprParts)
    ELSE stringParts

\* Parser::parseInterpString, called with the INTERP_STRING token consumed
parseInterpString(ps, raw) ==
    Bind(interpLoop(raw, 0, <<>>, <<>>), LAMBDA l :
    IF l.thrown
    THEN PE([Parser_error(ps, ps.current_, "Unterminated interpolation in string")
                EXCEPT !.thrown = TRUE], NoExpr)
    ELSE PE(ps, InterpString(padStringParts(l.stringParts, l.exprParts), l.exprParts)))

\* Parser::primary
primary(ps) ==
    IF Parser_check(ps, {"ONGOD", "CAP", "NAH"})
    THEN PE(Parser_advance(ps), Literal(Parser_peek(ps)))
    ELSE IF Parser_check(ps, {"NUMBER"}) THEN PE(Parser_advance(ps), NumLit)
    ELSE IF Parser_check(ps, {"STRING"})
    THEN PE(Parser_advance(ps), StrLit(ps.literals[ps.current_ + 1]))
    ELSE IF Parser_check(ps, {"INTERP_STRING"})
    THEN parseInterpString(Parser_advance(ps), ps.literals[ps.current_ + 1])
    ELSE IF Parser_check(ps, {"LBRACKET"})
    THEN Bind(expressionList(Parser_advance(ps), <<>>, "RBRACKET",
                             "Expected ']' after array elements."), LAMBDA r :
         IF r.p.thrown THEN r ELSE PE(r.p, ArrayExpr(r.e)))
    ELSE IF Parser_check(ps, {"IDENTIFIER"})
    THEN PE(Parser_advance(ps), Ident(Parser_peek(ps)))
    ELSE IF Parser_check(ps, {"LPAREN"})
    THEN Bind(expression(Parser_advance(ps)), LAMBDA r :
         IF r.p.thrown THEN r
         ELSE Bind(consume(r.p, "RPAREN", "Expected ')' after expression."), LAMBDA p1 :
              PE(p1, IF p1.thrown THEN NoExpr ELSE Grouping(r.e))))
    ELSE PE(ThrowError(ps, "Expected expression."), NoExpr)

\* the second half of Parser::assignment: the compound assignment
compoundAssignment(ps, expr) ==
    IF ~Parser_check(ps, {"PLUS_EQ", "MINUS_EQ", "STAR_EQ", "SLASH_EQ", "PERCENT_EQ"})
    THEN PE(ps, expr)
    ELSE Bind(assignment(Parser_advance(ps)), LAMBDA r :
         IF r.p.thrown THEN r
         ELSE IF expr.k = "id" THEN PE(r.p, CompoundAssign(expr.name, Parser_peek(ps), r.e))
         ELSE PE(Parser_error(r.p, ps.current_ + 1, "Invalid compound assignment target."),
                 expr))

\* Parser::assignment
assignment(ps) ==
    Bind(logicalOr(ps), LAMBDA l :
    IF l.p.thrown THEN l
    ELSE IF ~Parser_check(l.p, {"ASSIGN"}) THEN compoundAssignment(l.p, l.e)
    ELSE Bind(assignment(Parser_advance(l.p)), LAMBDA r :
         IF r.p.thrown THEN r
         ELSE IF l.e.k = "id" THEN PE(r.p, Assign(l.e.name, r.e))
         ELSE IF l.e.k = "index" THEN PE(r.p, IndexAssignExpr(l.e.object, l.e.index, r.e))
         ELSE compoundAssignment(
                  Parser_error(r.p, l.p.current_ + 1, "Invalid assignment target."), l.e)))

\* the tokens that start a statement other than an expression statement
StatementTokens ==
    {"FR", "VIBE", "SAY", "LOWKEY", "GOON", "EDGE", "SEND", "MOG", "SKIP", "SIMP", "YEET"}

\* Parser::synchronize: the loop after the first advance()
RECURSIVE skipToStatement(_)
skipToStatement(ps) ==
    IF Parser_isAtEnd(ps) \/ Parser_peek(ps) \in StatementTokens THEN ps
    ELSE skipToStatement(Parser_advance(ps))

\* a recovery that starts looking for a keyword at the token of the error
synchronizeInPlace(ps) == skipToStatement(ps)

synchronize(ps) == skipToStatement(Parser_advance(ps))

\* Parser::expressionStatement
expressionStatement(ps) ==
    Bind(expression(ps), LAMBDA r :
    IF r.p.thrown THEN r ELSE PE(r.p, ExprStmt(r.e)))

\* Parser::varDeclaration
varDeclaration(ps) ==
    Bind(consume(ps, "IDENTIFIER", "Expected variable name after 'fr'."), LAMBDA p1 :
    IF p1.thrown THEN PE(p1, NoStmt)
    ELSE Bind(consume(p1, "ASSIGN", "Expected '=' after variable name."), LAMBDA p2 :
         IF p2.thrown THEN PE(p2, NoStmt)
         ELSE Bind(expression(p2), LAMBDA r :
              IF r.p.thrown THEN r ELSE PE(r.p, VarDeclStmt(Parser_peek(ps), r.e)))))

\* Parser::printStatement
printStatement(ps) ==
    Bind(expression(ps), LAMBDA r :
    IF r.p.thrown THEN r ELSE PE(r.p, PrintStmt(r.e)))

\* Parser::returnStatement
returnStatement(ps) ==
    IF Parser_check(ps, {"RBRACE"}) \/ Parser_isAtEnd(ps) THEN PE(ps, ReturnStmt(NoExpr))
    ELSE Bind(expression(ps), LAMBDA r :
         IF r.p.thrown THEN r ELSE PE(r.p, ReturnStmt(r.e)))

RECURSIVE declaration(_), blockLoop(_, _)

\* the loop of Parser::block and its consume of the closing brace; stalled
\* records a turn of the loop that neither moved the cursor nor threw, after
\* which the loop would go on for ever
blockLoop(ps, statements) ==
    IF Parser_check(ps, {"RBRACE"}) \/ Parser_isAtEnd(ps)
    THEN PE(consume(ps, "RBRACE", "Expected '}' after block."), BlockStmt(statements))
    ELSE Bind(declaration(ps), LAMBDA r :
         IF r.p.thrown THEN r
         ELSE IF r.p.current_ = ps.current_ THEN PE([r.p EXCEPT !.stalled = TRUE], NoStmt)
         ELSE blockLoop(r.p, Append(statements, r.e)))

\* Parser::block
block(ps) == blockLoop(ps, <<>>)

\* consume(type, message) and then the rest F of the statement
Consumed(ps, type, message, F(_)) ==
    Bind(consume(ps, type, message), LAMBDA p1 :
    IF p1.thrown THEN PE(p1, NoStmt) ELSE F(p1))

\* Parser::whileStatement
whileStatement(ps) ==
    Consumed(ps, "LPAREN", "Expected '(' after 'goon'.", LAMBDA p1 :
    Bind(expression(p1), LAMBDA c :
    IF c.p.thrown THEN c
    ELSE Consumed(c.p, "RPAREN", "Expected ')' after condition.", LAMBDA p2 :
         Consumed(p2, "LBRACE", "Expected '{' before 'goon' body.", LAMBDA p3 :
         Bind(block(p3), LAMBDA b :
         IF b.p.thrown \/ b.p.stalled THEN b ELSE PE(b.p, WhileStmt(c.e, b.e)))))))

\* Parser::forStatement: the initializer, the condition, the increment
forInitializer(ps) ==
    IF Parser_check(ps, {"FR"}) THEN varDeclaration(Parser_advance(ps))
    ELSE IF ~Parser_check(ps, {"COMMA"}) THEN expressionStatement(ps)
    ELSE PE(ps, NoStmt)

\* a clause that may not be left out
forClauseRequired(ps, closing) == expression(ps)

forClause(ps, closing) ==
    IF ~Parser_check(ps, {closing}) THEN expression(ps) ELSE PE(ps, NoExpr)

\* Parser::forStatement
forStatement(ps) ==
    Consumed(ps, "LPAREN", "Expected '(' after 'edge'.", LAMBDA p1 :
    Bind(forInitializer(p1), LAMBDA i :
    IF i.p.thrown THEN i
    ELSE Consumed(i.p, "COMMA", "Expected ',' after loop initializer.", LAMBDA p2 :
    Bind(forClause(p2, "COMMA"), LAMBDA c :
    IF c.p.thrown THEN c
    ELSE Consumed(c.p, "COMMA", "Expected ',' after loop condition.", LAMBDA p3 :
    Bind(forClause(p3, "RPAREN"), LAMBDA n :
    IF n.p.thrown THEN n
    ELSE Consumed(n.p, "RPAREN", "Expected ')' after 'edge' clauses.", LAMBDA p4 :
         Consumed(p4, "LBRACE", "Expected '{' before 'edge' body.", LAMBDA p5 :
         Bind(block(p5), LAMBDA b :
         IF b.p.thrown \/ b.p.stalled THEN b
         ELSE PE(b.p, ForStmt(i.e, c.e, n.e, b.e)))))))))))

\* Parser::statement, for the statements of the inputs (no token list holds
\* lowkey, simp or yeet)
statement(ps) ==
    CASE Parser_check(ps, {"SAY"}) -> printStatement(Parser_advance(ps))
      [] Parser_check(ps, {"GOON"}) -> whileStatement(Parser_advance(ps))
      [] Parser_check(ps, {"EDGE"}) -> forStatement(Parser_advance(ps))
      [] Parser_check(ps, {"SEND"}) -> returnStatement(Parser_advance(ps))
      [] Parser_check(ps, {"MOG"}) -> PE(Parser_advance(ps), BreakStmt)
      [] Parser_check(ps, {"SKIP"}) -> PE(Parser_advance(ps), ContinueStmt)
      [] Parser_check(ps, {"LBRACE"}) -> block(Parser_advance(ps))
      [] OTHER -> expressionStatement(ps)

\* Parser::declaration (no token list holds vibe)
declaration(ps) ==
    IF Parser_check(ps, {"FR"}) THEN varDeclaration(Parser_advance(ps))
    ELSE statement(ps)

(***************************************************************************)
(* Programs.  A family F names the one-node statements (F.leaves) and the  *)
(* compound statements (F.kinds) its programs are built from.              *)
(* StmtsN(F, n, d) are the statements of exactly n statement nodes nested  *)
(* at most d deep, BodiesN(F, n, d) the statement lists of exactly n       *)
(* nodes.  The body of a loop, of a branch and of try/catch is a block, as *)
(* Parser::block makes it, and is not counted as a node.                   *)
(***************************************************************************)
RECURSIVE StmtsN(_, _, _)
RECURSIVE BodiesN(_, _, _)

BodiesN(F, n, d) ==
    IF n = 0 THEN {<<>>}
    ELSE IF d = 0 THEN {}
    ELSE UNION {{<<s>> \o rest : s \in StmtsN(F, m, d), rest \in BodiesN(F, n - m, d)} :
                m \in 1..n}

\* two bodies of n nodes together
BodyPairs(F, n, d) ==
    UNION {BodiesN(F, i, d) \X BodiesN(F, n - i, d) : i \in 0..n}

StmtsN(F, n, d) ==
    (IF n = 1 THEN F.leaves ELSE {})
    \cup (IF "block" \in F.kinds
          THEN {BlockStmt(b) : b \in BodiesN(F, n - 1, d - 1)} ELSE {})
    \cup (IF "while" \in F.kinds
          THEN {WhileStmt(NumLit, BlockStmt(b)) : b \in BodiesN(F, n - 1, d - 1)} ELSE {})
    \cup (IF "for" \in F.kinds
          THEN {ForStmt(NoStmt, NoExpr, NoExpr, BlockStmt(b)) :
                    b \in BodiesN(F, n - 1, d - 1)}
          ELSE {})
    \cup (IF "if" \in F.kinds
          THEN {IfStmt(NumLit, BlockStmt(b), NoStmt) : b \in BodiesN(F, n - 1, d - 1)}
          ELSE {})
    \cup (IF "ifelse" \in F.kinds
          THEN {IfStmt(NumLit, BlockStmt(q[1]), BlockStmt(q[2])) :
                    q \in BodyPairs(F, n - 1, d - 1)}
          ELSE {})
    \cup (IF "funcdef" \in F.kinds
          THEN {FuncDefStmt("f", <<>>, b) : b \in BodiesN(F, n - 1, d - 1)} ELSE {})
    \cup (IF "funcdefp" \in F.kinds
          THEN {FuncDefStmt("f", <<"p">>, b) : b \in BodiesN(F, n - 1, d - 1)} ELSE {})
    \cup (IF "switch" \in F.kinds
          THEN {SwitchStmt(NumLit, <<SwitchCase(NumLit, b, FALSE)>>) :
                    b \in BodiesN(F, n - 1, d - 1)}
          ELSE {})
    \cup (IF "try" \in F.kinds
          THEN {TryCatchStmt(BlockStmt(q[1]), BlockStmt(q[2])) :
                    q \in BodyPairs(F, n - 1, d - 1)}
          ELSE {})

\* the programs of at most n statement nodes nested at most d deep
Programs(F, n, d) == UNION {BodiesN(F, m, d) : m \in 0..n}

\* programs of loops, jumps and function definitions; one leaf is a loop
\* whose condition names an undeclared variable
JumpFamily ==
    [leaves |-> {BreakStmt, ContinueStmt, PrintStmt(NumLit),
                 WhileStmt(Ident("u"), BlockStmt(<<>>))},
     kinds |-> {"while", "for", "funcdef"}]

JumpPrograms == Programs(JumpFamily, MaxJumpNodes, MaxJumpDepth)

\* say "{x}": the format of the print is the conversion of x and a newline
InterpPrint == PrintStmt(InterpString(<<"", "">>, <<Ident("x")>>))

\* programs of string literals, prints and interpolated strings; two of the
\* literals have the content of a print format, and one expression statement
\* is "{x}" followed by a newline inside the quotes
StringFamily ==
    [leaves |-> {VarDeclStmt("x", NumLit), VarDeclStmt("x", StrLit("a")),
                 PrintStmt(NumLit), PrintStmt(StrLit("a")), PrintStmt(StrLit("%g\n")),
                 ExprStmt(StrLit("%s\n")), InterpPrint,
                 ExprStmt(InterpString(<<"", "\n">>, <<Ident("x")>>))},
     kinds |-> {"block"}]

StringPrograms == Programs(StringFamily, MaxStringNodes, MaxStringDepth)

\* an operand of && or ||: a nested logical expression is written in
\* parentheses, which Parser::primary turns into a GroupingExpr
Paren(e) == IF e.k = "logical" THEN Grouping(e) ELSE e

\* the expressions of exactly n operators && and || over a number and an
\* undeclared variable
RECURSIVE LogicalExprsN(_)
LogicalExprsN(n) ==
    IF n = 0 THEN {NumLit, Ident("u")}
    ELSE UNION {{Logical(Paren(l), o, Paren(r)) :
                    l \in LogicalExprsN(i), o \in {"AND", "OR"},
                    r \in LogicalExprsN(n - 1 - i)} :
                i \in 0..(n - 1)}

LogicalExprs == UNION {LogicalExprsN(n) : n \in 0..MaxLogicalOps}

\* programs of one expression statement, or of one loop with the expression
\* for its condition
LogicalPrograms ==
    {<<ExprStmt(e)>> : e \in LogicalExprs}
    \cup {<<WhileStmt(e, BlockStmt(<<>>))>> : e \in LogicalExprs}

\* programs of declarations and uses of x in blocks, branches, loop bodies
\* and switch arms
ScopeFamily ==
    [leaves |-> {VarDeclStmt("x", NumLit), PrintStmt(Ident("x"))},
     kinds |-> {"block", "if", "while", "switch"}]

ScopePrograms == Programs(ScopeFamily, MaxScopeNodes, MaxScopeDepth)

(***************************************************************************)
(* The state machine of one CodeGen::generate call.                        *)
(***************************************************************************)
VARIABLES program, g, pc, idx, ok, args, env, reporter, drv, lexer, parser

\* the variables of the generator, those of the driver and those of the
\* front end
genVars == <<g, pc, idx, ok>>
drvVars == <<args, env, reporter, drv>>
frontVars == <<lexer, parser>>

vars == <<program, g, pc, idx, ok, args, env, reporter, drv, lexer, parser>>

\* CodeGen::generate, entry to the start of the second pass
GenBegin ==
    /\ pc = "begin"
    /\ g' = generateBegin(g, program)
    /\ idx' = 1
    /\ pc' = "pass2"
    /\ UNCHANGED <<program, ok>>
    /\ UNCHANGED drvVars
    /\ UNCHANGED frontVars

\* CodeGen::generate, one iteration of the second pass
GenStmt ==
    /\ pc = "pass2"
    /\ idx <= Len(program)
    /\ g' = generateStmt(g, program[idx], <<idx>>)
    /\ IF g'.hadError_
       THEN pc' = "done" /\ ok' = FALSE /\ idx' = idx
       ELSE pc' = pc /\ ok' = ok /\ idx' = idx + 1
    /\ UNCHANGED program
    /\ UNCHANGED drvVars
    /\ UNCHANGED frontVars

\* CodeGen::generate, from the end of the second pass to the return
GenEnd ==
    /\ pc = "pass2"
    /\ idx > Len(program)
    /\ LET r == generateEnd(g)
       IN g' = r.g /\ ok' = r.ok
    /\ pc' = "done"
    /\ UNCHANGED <<program, idx>>
    /\ UNCHANGED drvVars
    /\ UNCHANGED frontVars

\* the driver before main is entered
DriverIdle ==
    /\ args = <<>>
    /\ env = NoEnv
    /\ reporter = ErrorReporter
    /\ drv = MainLocals

GenInit(P) ==
    /\ program \in P
    /\ g = CodeGen
    /\ pc = "begin"
    /\ idx = 0
    /\ ok = FALSE
    /\ DriverIdle
    /\ lexer = Lexer(<<>>)
    /\ parser = [Parser(<<"END_OF_FILE">>) EXCEPT !.pc = "none"]

Next == GenBegin \/ GenStmt \/ GenEnd

(***************************************************************************)
(* The state machine of one run of the driver (main).                      *)
(***************************************************************************)
\* main returns code
Exit(m, code) == [m EXCEPT !.pc = "exited", !.exit = code]

\* main, the argument loop and the default mode; without a file name main
\* runs the REPL (not modelled) and returns 0
MainArgs ==
    /\ drv.pc = "args"
    /\ LET m == parseArgs(drv, args, 1)
       IN drv' = IF m.exit >= 0 THEN Exit(m, m.exit)
                 ELSE IF m.filename = "" THEN Exit(m, 0)
                 ELSE IF ~m.explicitMode THEN [m EXCEPT !.runProgram = TRUE, !.pc = "read"]
                 ELSE [m EXCEPT !.pc = "read"]
    /\ UNCHANGED <<program, args, env, reporter>>
    /\ UNCHANGED genVars
    /\ UNCHANGED frontVars

\* main, readFile: an unreadable or empty file ends the run
MainRead ==
    /\ drv.pc = "read"
    /\ drv' = IF env.readable THEN [drv EXCEPT !.pc = "show"] ELSE Exit(drv, 1)
    /\ UNCHANGED <<program, args, env, reporter>>
    /\ UNCHANGED genVars
    /\ UNCHANGED frontVars

\* main, the --tokens and --ast blocks
MainShow ==
    /\ drv.pc = "show"
    /\ LET t == tokensBlock(reporter, env)
           rep1 == IF drv.showTokens THEN t.rep ELSE reporter
           m1 == IF drv.showTokens THEN Ran(drv, t.l) ELSE drv
           a == astBlock(rep1, env)
       IN /\ reporter' = IF drv.showAST THEN a.rep ELSE rep1
          /\ drv' = [(IF drv.showAST THEN Ran(m1, a.l) ELSE m1) EXCEPT !.pc = "dispatch"]
    /\ UNCHANGED <<program, args, env>>
    /\ UNCHANGED genVars
    /\ UNCHANGED frontVars

\* main, -o: return compileToFile(...)
MainCompileToFile ==
    /\ drv.pc = "dispatch"
    /\ drv.compileOnly
    /\ \E r \in {compileToFile(reporter, env, program, env.tools, env.status)} :
          /\ reporter' = r.rep
          /\ drv' = Exit(Ran(drv, r.l), r.l.ret)
    /\ UNCHANGED <<program, args, env>>
    /\ UNCHANGED genVars
    /\ UNCHANGED frontVars

\* main, --emit-ir: run(...); return 0
MainEmitIR ==
    /\ drv.pc = "dispatch"
    /\ ~drv.compileOnly
    /\ drv.emitIR
    /\ \E r \in {run(reporter, env, program, TRUE)} :
          /\ reporter' = r.rep
          /\ drv' = Exit(Ran(drv, r.l), 0)
    /\ UNCHANGED <<program, args, env>>
    /\ UNCHANGED genVars
    /\ UNCHANGED frontVars

\* main, --run or the default: return compileAndRun(...)
MainRun ==
    /\ drv.pc = "dispatch"
    /\ ~drv.compileOnly
    /\ ~drv.emitIR
    /\ drv.runProgram
    /\ \E r \in {compileAndRun(reporter, env, program, env.tools, env.status)} :
          /\ reporter' = r.rep
          /\ drv' = Exit(Ran(drv, r.l), r.l.ret)
    /\ UNCHANGED <<program, args, env>>
    /\ UNCHANGED genVars
    /\ UNCHANGED frontVars

\* main, only --tokens, --ast or --no-ir: return 0
MainDone ==
    /\ drv.pc = "dispatch"
    /\ ~drv.compileOnly
    /\ ~drv.emitIR
    /\ ~drv.runProgram
    /\ drv' = Exit(drv, 0)
    /\ UNCHANGED <<program, args, env, reporter>>
    /\ UNCHANGED genVars
    /\ UNCHANGED frontVars

\* the command line: some of these arguments, in this order
AllArgs ==
    <<"--tokens", "--ast", "--emit-ir", "--no-ir", "--run", "--help", "--bad",
      "file", "-o", "out">>

\* the elements of argv whose index is in S
RECURSIVE Pick(_, _, _)
Pick(argv, S, i) ==
    IF i > Len(argv) THEN <<>>
    ELSE (IF i \in S THEN <<argv[i]>> ELSE <<>>) \o Pick(argv, S, i + 1)

ArgLists == {Pick(AllArgs, S, 1) : S \in SUBSET (1..Len(AllArgs))}

\* the source file and the toolchain: an unreadable file, or a file with its
\* numbers of lexical and syntax errors and what the toolchain does
Envs ==
    {NoEnv}
    \cup {[readable |-> TRUE, lexErrors |-> l, parseErrors |-> q, tools |-> t,
           status |-> 0] :
              l \in 0..MaxStageErrors, q \in 0..MaxStageErrors,
              t \in {"notemp", "nowrite", "none", "fail", "ok"}}
    \cup {[readable |-> TRUE, lexErrors |-> l, parseErrors |-> q, tools |-> "ok",
           status |-> 1] :
              l \in 0..MaxStageErrors, q \in 0..MaxStageErrors}

\* the ASTs of the driver's source files: nothing, a program that compiles,
\* a program the generator rejects
DriverPrograms == {<<>>, <<PrintStmt(NumLit)>>, <<BreakStmt>>}

DriverInit ==
    /\ program \in DriverPrograms
    /\ args \in ArgLists
    /\ env \in Envs
    /\ reporter = ErrorReporter
    /\ drv = MainLocals
    /\ lexer = Lexer(<<>>)
    /\ parser = [Parser(<<"END_OF_FILE">>) EXCEPT !.pc = "none"]
    /\ g = CodeGen
    /\ pc = "idle"
    /\ idx = 0
    /\ ok = FALSE

DriverNext ==
    \/ MainArgs \/ MainRead \/ MainShow
    \/ MainCompileToFile \/ MainEmitIR \/ MainRun \/ MainDone

SpecDriver == DriverInit /\ [][DriverNext]_vars

InitJumps == GenInit(JumpPrograms)
SpecJumps == InitJumps /\ [][Next]_vars

InitStrings == GenInit(StringPrograms)
SpecStrings == InitStrings /\ [][Next]_vars

InitLogical == GenInit(LogicalPrograms)
SpecLogical == InitLogical /\ [][Next]_vars

InitScope == GenInit(ScopePrograms)
SpecScope == InitScope /\ [][Next]_vars

\* programs of declarations and uses of x and uses of p at top level and in
\* the bodies of definitions vibe f(p) { ... }
InitFunc ==
    GenInit(Programs([leaves |-> {VarDeclStmt("x", NumLit), PrintStmt(Ident("x")),
                                  PrintStmt(Ident("p"))},
                      kinds |-> {"funcdefp", "block"}], MaxFuncNodes, MaxFuncDepth))
SpecFunc == InitFunc /\ [][Next]_vars

\* programs of declarations of x, assignments of a number and of a string to
\* x, and uses of x, in nested blocks
InitAssign ==
    GenInit(Programs([leaves |-> {VarDeclStmt("x", NumLit),
                                  ExprStmt(Assign("x", NumLit)),
                                  ExprStmt(Assign("x", StrLit("a"))),
                                  PrintStmt(Ident("x"))},
                      kinds |-> {"block"}], MaxAssignNodes, MaxAssignDepth))
SpecAssign == InitAssign /\ [][Next]_vars

\* programs of declarations of a number x and of an array a of one element,
\* assignments of a number, a string and an array of two elements to a, and
\* reads and writes of a[0], in blocks and loop bodies
InitArray ==
    GenInit(Programs([leaves |-> {VarDeclStmt("x", NumLit),
                                  VarDeclStmt("a", ArrayExpr(<<NumLit>>)),
                                  ExprStmt(Assign("a", NumLit)),
                                  ExprStmt(Assign("a", StrLit("s"))),
                                  ExprStmt(Assign("a", ArrayExpr(<<NumLit, NumLit>>))),
                                  PrintStmt(IndexExpr(Ident("a"), NumLit)),
                                  ExprStmt(IndexAssignExpr(Ident("a"), NumLit, NumLit))},
                      kinds |-> {"block", "while"}], MaxArrayNodes, MaxArrayDepth))
SpecArray == InitArray /\ [][Next]_vars

\* the arms of a switch: stan 0 and stan 1 and ghost, with an empty body or
\* with one print
SwitchArms ==
    {SwitchCase(Num(c), b, FALSE) : c \in 0..1, b \in {<<>>, <<PrintStmt(NumLit)>>}}
    \cup {SwitchCase(NoExpr, b, TRUE) : b \in {<<>>, <<PrintStmt(NumLit)>>}}

\* programs of one simp over the value 0, 1 or 2 with at most one ghost arm,
\* placed anywhere among the stan arms
InitSwitch ==
    GenInit({<<SwitchStmt(Num(v), cs)>> :
                v \in 0..2,
                cs \in {a \in UNION {[1..n -> SwitchArms] : n \in 0..MaxSwitchArms} :
                           Cardinality({i \in 1..Len(a) : a[i].isDefault}) <= 1}})
SpecSwitch == InitSwitch /\ [][Next]_vars

(***************************************************************************)
(* The lexical structure of the program (ast/AST.h), which the claims      *)
(* compare the generated module against.                                   *)
(***************************************************************************)
\* The mog and skip statements of stmt (at position p), each with the
\* position of the innermost loop that lexically encloses it (<<>> for
\* none).  loop is the innermost loop around stmt; a function body starts
\* outside every loop if perFunction, and inherits loop otherwise.
RECURSIVE JumpsIn(_, _, _, _)
JumpsIn(stmt, p, loop, perFunction) ==
    CASE stmt.k = "break" -> {[path |-> p, kind |-> "mog", loop |-> loop]}
      [] stmt.k = "continue" -> {[path |-> p, kind |-> "skip", loop |-> loop]}
      [] stmt.k = "block" ->
           UNION {JumpsIn(stmt.statements[i], p \o <<i>>, loop, perFunction) :
                  i \in 1..Len(stmt.statements)}
      [] stmt.k = "if" ->
           JumpsIn(stmt.thenBranch, p \o <<1>>, loop, perFunction)
           \cup JumpsIn(stmt.elseBranch, p \o <<2>>, loop, perFunction)
      [] stmt.k = "while" -> JumpsIn(stmt.body, p \o <<1>>, p, perFunction)
      [] stmt.k = "for" ->
           JumpsIn(stmt.initializer, p \o <<0>>, loop, perFunction)
           \cup JumpsIn(stmt.body, p \o <<1>>, p, perFunction)
      [] stmt.k = "funcdef" ->
           UNION {JumpsIn(stmt.body[i], p \o <<i>>,
                          IF perFunction THEN <<>> ELSE loop, perFunction) :
                  i \in 1..Len(stmt.body)}
      [] stmt.k = "switch" ->
           UNION {UNION {JumpsIn(stmt.cases[c].body[j], p \o <<c, j>>, loop, perFunction) :
                         j \in 1..Len(stmt.cases[c].body)} :
                  c \in 1..Len(stmt.cases)}
      [] stmt.k = "try" ->
           JumpsIn(stmt.tryBlock, p \o <<1>>, loop, perFunction)
           \cup JumpsIn(stmt.catchBlock, p \o <<2>>, loop, perFunction)
      [] OTHER -> {}

\* the mog and skip statements of the program
ProgramJumps(perFunction) ==
    UNION {JumpsIn(program[i], <<i>>, <<>>, perFunction) : i \in 1..Len(program)}

\* the instructions of the module, each with its block
ModuleInsts ==
    UNION {{[block |-> b, inst |-> g.blocks[b].insts[j]] :
               j \in 1..Len(g.blocks[b].insts)} :
           b \in 1..Len(g.blocks)}

\* the branches generateBreak and generateContinue emitted
JumpBranches == {x \in ModuleInsts : x.inst.tag # ""}

\* generate() returned true
Compiled == pc = "done" /\ ok

\* block b is the break target (for "mog") or the continue target (for
\* "skip") of the loop at position loop
IsLoopTarget(b, loop, kind) ==
    /\ g.blocks[b].owner = loop
    /\ g.blocks[b].name \in (IF kind = "mog" THEN {"whileend", "forend"}
                             ELSE {"whilecond", "forincr"})

(***************************************************************************)
(* Claims about basic blocks, functions and jumps.                         *)
(***************************************************************************)
\* the blocks of the functions of the module
FunctionBlocks ==
    UNION {{g.funcs[f].bbs[k] : k \in 1..Len(g.funcs[f].bbs)} : f \in 1..Len(g.funcs)}

\* block b ends with a terminator and holds no other terminator
WellTerminated(b) ==
    LET insts == g.blocks[b].insts
    IN /\ insts # <<>>
       /\ \A j \in 1..Len(insts) : IsTerminator(insts[j]) <=> j = Len(insts)

\* C4: once generate() has lowered the whole program, every basic block of
\* every function of the module ends with exactly one terminator and holds
\* no instruction after it.
C4_BlocksEndWithOneTerminator ==
    (pc = "done" /\ idx > Len(program)) => \A b \in FunctionBlocks : WellTerminated(b)

\* C5: a program that compiles has exactly one function named main, the
\* i32 entry function, and exactly one declaration of the variadic printf.
C5_OneMainOnePrintf ==
    Compiled =>
        /\ Cardinality({f \in 1..Len(g.funcs) : g.funcs[f].base = "main"}) = 1
        /\ \E f \in 1..Len(g.funcs) :
              /\ g.funcs[f].base = "main" /\ g.funcs[f].dup = 0
              /\ g.funcs[f].ret = "i32" /\ g.funcs[f].bbs # <<>>
        /\ Cardinality({f \in 1..Len(g.funcs) :
                           /\ g.funcs[f].base = "printf" /\ g.funcs[f].dup = 0
                           /\ g.funcs[f].vararg /\ g.funcs[f].bbs = <<>>}) = 1

\* C7: no branch is emitted for a mog or skip that is outside every loop of
\* its function, and a program that holds such a statement does not compile.
C7_JumpOutsideLoopIsError ==
    LET outside == {c \in ProgramJumps(TRUE) : c.loop = <<>>}
    IN /\ \A x \in JumpBranches : \A c \in outside : x.inst.src # c.path
       /\ Compiled => outside = {}

\* C8: every branch of a mog (skip) goes to the break (continue) target of
\* the innermost loop that lexically encloses the statement, and in a
\* program that compiles every mog and skip inside a loop has exactly one
\* such branch.
C8_JumpTargetsInnermostLoop ==
    /\ \A x \in JumpBranches :
          \E c \in ProgramJumps(FALSE) :
              /\ c.path = x.inst.src /\ c.kind = x.inst.tag
              /\ c.loop # <<>>
              /\ IsLoopTarget(x.inst.a, c.loop, c.kind)
    /\ Compiled =>
          \A c \in ProgramJumps(FALSE) :
              Cardinality({x \in JumpBranches : x.inst.src = c.path}) = 1

(***************************************************************************)
(* Claims about string globals.                                            *)
(***************************************************************************)
\* C6: at every point of the lowering the module holds one private string
\* global for each distinct content that createGlobalString or
\* getOrCreateFormatString was asked for so far, and both caches hold the
\* pointer to that global.
C6_OneGlobalPerContent ==
    /\ Len(g.globals) = Cardinality(g.requested)
    /\ \A str \in g.requested :
          /\ str \in DOMAIN g.stringLiterals_
          /\ \E gv \in 1..Len(g.globals) :
                g.globals[gv] = str /\ g.stringLiterals_[str] = GlobalPtr(gv)
    /\ \A str \in DOMAIN g.formatStrings_ :
          /\ str \in DOMAIN g.stringLiterals_
          /\ g.formatStrings_[str] = g.stringLiterals_[str]

\* a program compiled in which say "{x}" asked createGlobalString for the
\* number format before say <number> asked getOrCreateFormatString for it
C6_Witness ==
    /\ Compiled
    /\ \E i, j \in 1..Len(program) :
          i < j /\ program[i] = InterpPrint /\ program[j] = PrintStmt(NumLit)
    /\ g.globals = <<"%g\n">>

(***************************************************************************)
(* Claims about logical expressions.                                       *)
(***************************************************************************)
\* the phi instructions of the module, each with its block
Phis == {x \in ModuleInsts : x.inst.op = "phi"}

\* the predecessors of block m: the blocks that hold a branch to m
Preds(m) ==
    {x.block : x \in {y \in ModuleInsts :
                          \/ y.inst.op = "br" /\ y.inst.a = m
                          \/ y.inst.op = "condbr" /\ m \in {y.inst.a, y.inst.b}}}

\* the last instruction of block b
LastInst(b) == g.blocks[b].insts[Len(g.blocks[b].insts)]

\* the number of && and || operators of an expression
RECURSIVE LogicalOps(_)
LogicalOps(e) ==
    CASE e.k = "logical" -> 1 + LogicalOps(e.left) + LogicalOps(e.right)
      [] e.k = "grouping" -> LogicalOps(e.expression)
      [] OTHER -> 0

\* the expression of a program of LogicalPrograms
ProgramExpr ==
    IF program[1].k = "while" THEN program[1].condition ELSE program[1].expression

\* C9: the phi of every && / || has two incoming edges from two different
\* blocks, which are exactly the predecessors of its merge block: the block
\* the conditional branch after the left operand is in, with the constant 1.0
\* (||) or 0.0 (&&), and the block the code of the right operand ends in,
\* with the converted value of the right operand; and in a program that
\* compiles every && / || has its phi.
C9_PhiEdgesArePredecessors ==
    /\ \A x \in Phis :
          LET m == x.block
              isOr == g.blocks[m].name = "or.merge"
          IN /\ g.blocks[m].name \in {"or.merge", "and.merge"}
             /\ g.blocks[m].insts[1] = x.inst
             /\ x.inst.a # x.inst.b
             /\ {x.inst.a, x.inst.b} = Preds(m)
             /\ LastInst(x.inst.a).op = "condbr"
             /\ (IF isOr THEN LastInst(x.inst.a).a ELSE LastInst(x.inst.a).b) = m
             /\ x.inst.va = ConstFP(IF isOr THEN 1 ELSE 0).id
             /\ LastInst(x.inst.b).op = "br"
             /\ \E j \in 1..Len(g.blocks[x.inst.b].insts) :
                   /\ g.blocks[x.inst.b].insts[j].op = "uitofp"
                   /\ g.blocks[x.inst.b].insts[j].id = x.inst.vb
    /\ (Compiled /\ program # <<>>) => Cardinality(Phis) = LogicalOps(ProgramExpr)

\* a program compiled in which the right operand of a && / || is itself a
\* logical expression: the code of the right operand ends in the merge
\* block of the inner expression
C9_Witness ==
    /\ Compiled
    /\ \E x \in Phis : g.blocks[x.inst.b].name \in {"or.merge", "and.merge"}

(***************************************************************************)
(* Claims about scopes.                                                    *)
(***************************************************************************)
\* The say x statements of the statement list ss from its i-th statement
\* on (the list is at position p), each with the position of the fr x it
\* resolves to when every { ... } is a scope (<<>>: to none); decl is the
\* declaration visible before the i-th statement.
RECURSIVE UsesInList(_, _, _, _)
RECURSIVE UsesIn(_, _, _)
UsesInList(ss, i, p, decl) ==
    IF i > Len(ss) THEN {}
    ELSE UsesIn(ss[i], p \o <<i>>, decl)
         \cup UsesInList(ss, i + 1, p,
                         IF ss[i].k = "vardecl" THEN p \o <<i>> ELSE decl)

UsesIn(stmt, p, decl) ==
    CASE stmt.k = "print" /\ stmt.expression.k = "id" -> {[use |-> p, decl |-> decl]}
      [] stmt.k = "print" /\ stmt.expression.k # "id" -> {}
      [] stmt.k = "block" -> UsesInList(stmt.statements, 1, p, decl)
      [] stmt.k = "if" ->
           UsesIn(stmt.thenBranch, p \o <<1>>, decl)
           \cup UsesIn(stmt.elseBranch, p \o <<2>>, decl)
      [] stmt.k = "while" -> UsesIn(stmt.body, p \o <<1>>, decl)
      [] stmt.k = "switch" ->
           UNION {UsesInList(stmt.cases[c].body, 1, p \o <<c>>, decl) :
                  c \in 1..Len(stmt.cases)}
      [] OTHER -> {}

\* the say x statements of the program
ProgramUses == UsesInList(program, 1, <<>>, <<>>)

\* the loads the lowering of the statement at position p emitted
LoadsOf(p) == {x \in ModuleInsts : x.inst.op = "load" /\ x.inst.src = p}

\* the position of the statement whose lowering created the cell a
CellDecl(a) == (CHOOSE x \in ModuleInsts : x.inst.op = "alloca" /\ x.inst.id = a).inst.src

\* C10: a use of x reads the cell of the declaration that is visible at the
\* use when every { ... } (block statement, branch, loop body, switch arm
\* body) is a scope: a use outside the block of a declaration does not read
\* that declaration's cell, and in a program that compiles every use in the
\* scope of a declaration reads its cell.
C10_BlockScoping ==
    \A u \in ProgramUses :
        /\ \A x \in LoadsOf(u.use) : u.decl # <<>> /\ CellDecl(x.inst.a) = u.decl
        /\ (Compiled /\ u.decl # <<>>) => LoadsOf(u.use) # {}

(***************************************************************************)
(* Claims about function definitions and the cells of variables.           *)
(***************************************************************************)
\* q is a prefix of the position s: s is the statement at q or inside it
IsPrefix(q, s) == Len(q) <= Len(s) /\ SubSeq(s, 1, Len(q)) = q

\* the positions of the statements of kind k in stmt (at position p)
RECURSIVE StmtsOfKind(_, _, _)
StmtsOfKind(k, stmt, p) ==
    (IF stmt.k = k THEN {p} ELSE {})
    \cup CASE stmt.k = "funcdef" ->
                UNION {StmtsOfKind(k, stmt.body[i], p \o <<i>>) : i \in 1..Len(stmt.body)}
           [] stmt.k = "block" ->
                UNION {StmtsOfKind(k, stmt.statements[i], p \o <<i>>) :
                       i \in 1..Len(stmt.statements)}
           [] stmt.k \in {"while", "for"} -> StmtsOfKind(k, stmt.body, p \o <<1>>)
           [] stmt.k = "if" ->
                StmtsOfKind(k, stmt.thenBranch, p \o <<1>>)
                \cup StmtsOfKind(k, stmt.elseBranch, p \o <<2>>)
           [] OTHER -> {}

\* the positions of the statements of kind k in the program
ProgramStmts(k) ==
    UNION {StmtsOfKind(k, program[i], <<i>>) : i \in 1..Len(program)}

\* C11: a load emitted for a statement of a function body reads a cell that
\* was allocated for that definition (a parameter or a local, never a
\* top-level variable), and the lowering of a top-level function definition
\* leaves the scope stack, the scope depth, the current function and the
\* insertion point as they were before it.
C11_FuncDefFrame ==
    /\ [](\A q \in ProgramStmts("funcdef") :
             \A x \in ModuleInsts :
                 (x.inst.op = "load" /\ IsPrefix(q, x.inst.src))
                     => IsPrefix(q, CellDecl(x.inst.a)))
    /\ [][(pc = "pass2" /\ idx <= Len(program) /\ program[idx].k = "funcdef")
            => /\ g'.scopeStack_ = g.scopeStack_
               /\ g'.currentScopeDepth_ = g.currentScopeDepth_
               /\ g'.currentFunction_ = g.currentFunction_
               /\ g'.ip = g.ip]_vars

\* a definition with a parameter and a local x, with a top-level x declared
\* before it, has been lowered without error, and its body read the local x
C11_Witness ==
    /\ pc = "pass2" /\ idx = 3 /\ ~g.hadError_
    /\ program[1] = VarDeclStmt("x", NumLit)
    /\ program[2] = FuncDefStmt("f", <<"p">>, <<VarDeclStmt("x", NumLit),
                                                PrintStmt(Ident("x"))>>)
    /\ \E x \in ModuleInsts : x.inst.op = "load" /\ CellDecl(x.inst.a) = <<2, 1>>

\* C12: an assignment inside a block rebinds a name in the frame of that
\* block only: the lowering of a top-level block { ... } leaves the bindings
\* of the enclosing frames (cell and kind of every name) as they were, so
\* after the block a name resolves to the cell and kind it had before.
C12_RebindInCurrentFrameOnly ==
    [][(pc = "pass2" /\ idx <= Len(program) /\ program[idx].k = "block")
        => g'.scopeStack_ = g.scopeStack_]_vars

\* C13: a name bound to an array keeps the kind array and its recorded
\* length: no statement other than a new declaration changes the kind or the
\* length of an array binding of the top-level frame.
C13_ArrayBindingImmutable ==
    [][(pc = "pass2" /\ idx <= Len(program) /\ program[idx].k # "vardecl")
        => \A n \in DOMAIN g.scopeStack_[1] :
               g.scopeStack_[1][n].type = "array"
                   => /\ g'.scopeStack_[1][n].type = "array"
                      /\ g'.scopeStack_[1][n].arraySize = g.scopeStack_[1][n].arraySize]_vars

\* C14: the cell of every fr declaration is allocated in the entry block of
\* the function the declaration is in.
C14_DeclAllocaInEntryBlock ==
    \A x \in ModuleInsts :
        (x.inst.op = "alloca" /\ x.inst.src \in ProgramStmts("vardecl"))
            => x.block = getEntryBlock(g, g.blocks[x.block].parent)

\* C16: the generator does not go on after its first error: generateStmt is
\* never called for a statement once hadError_ is set, and generate() does
\* not return true after an error.
C16_NoLoweringAfterError ==
    /\ g.late = {}
    /\ (pc = "done" /\ g.hadError_) => ~ok

(***************************************************************************)
(* The execution of the generated code of main, for the claims about what  *)
(* the code does: a walk from block to block along the first terminator of *)
(* each block, a comparison of two constants being true iff they are the   *)
(* same constant.                                                          *)
(***************************************************************************)
\* the index of the first terminator of block b, 0 if it has none
FirstTerminator(b) ==
    LET T == {j \in 1..Len(g.blocks[b].insts) : IsTerminator(g.blocks[b].insts[j])}
    IN IF T = {} THEN 0 ELSE CHOOSE j \in T : \A k \in T : j <= k

\* the blocks executed from block b on, in order (at most fuel branches)
RECURSIVE Trace(_, _)
Trace(b, fuel) ==
    LET t == FirstTerminator(b)
    IN IF t = 0 \/ fuel = 0 THEN <<b>>
       ELSE LET i == g.blocks[b].insts[t]
                c == CHOOSE x \in ModuleInsts : x.inst.id = i.va
            IN CASE i.op = "br" -> <<b>> \o Trace(i.a, fuel - 1)
                 [] i.op = "condbr" ->
                      <<b>> \o Trace(IF c.inst.va = c.inst.vb THEN i.a ELSE i.b, fuel - 1)
                 [] OTHER -> <<b>>

\* the instructions executed in block b
Executed(b) ==
    LET t == FirstTerminator(b)
        n == IF t = 0 THEN Len(g.blocks[b].insts) ELSE t
    IN {g.blocks[b].insts[j] : j \in 1..n}

\* the arm of a switch that is to run: the first stan arm whose value is the
\* value of the switch, otherwise the ghost arm, otherwise none (0)
ExpectedArm(stmt) ==
    LET hit == {i \in 1..Len(stmt.cases) :
                   ~stmt.cases[i].isDefault /\ stmt.cases[i].value = stmt.expression}
        dflt == {i \in 1..Len(stmt.cases) : stmt.cases[i].isDefault}
    IN IF hit # {} THEN CHOOSE i \in hit : \A j \in hit : i <= j
       ELSE IF dflt # {} THEN CHOOSE i \in dflt : TRUE
       ELSE 0

\* the block of arm i of the switch at the top-level position <<1>>: the
\* default block, or the block of the k-th stan arm
ArmBlock(stmt, i) ==
    LET k == Cardinality({j \in 1..i : ~stmt.cases[j].isDefault})
        cbs == {b \in 1..Len(g.blocks) : g.blocks[b].name = "switch.case"}
    IN IF stmt.cases[i].isDefault
       THEN CHOOSE b \in 1..Len(g.blocks) : g.blocks[b].name = "switch.default"
       ELSE CHOOSE b \in cbs : Cardinality({c \in cbs : c <= b}) = k

\* C15: the code of a simp runs the block of exactly one arm - the first
\* stan arm in source order whose value equals the switch value, otherwise
\* the ghost arm, otherwise none - runs only that arm's statements, and then
\* reaches the merge block, where main returns; a switch with no arms
\* branches from the entry block directly to the merge block.
C15_SwitchRunsOneArm ==
    (pc = "done" /\ idx > Len(program)) =>
        LET stmt == program[1]
            tr == Trace(1, Len(g.blocks))
            visited == {tr[j] : j \in 1..Len(tr)}
            e == ExpectedArm(stmt)
            calls == {i \in UNION {Executed(b) : b \in visited} : i.op = "call"}
        IN /\ visited \cap {ArmBlock(stmt, i) : i \in 1..Len(stmt.cases)}
                = IF e = 0 THEN {} ELSE {ArmBlock(stmt, e)}
           /\ \A i \in calls : i.src = <<1, e, 1>>
           /\ (e # 0 /\ stmt.cases[IF e = 0 THEN 1 ELSE e].body # <<>>) => calls # {}
           /\ g.blocks[tr[Len(tr)]].name = "switch.end"
           /\ LET last == g.blocks[tr[Len(tr)]].insts
              IN last # <<>> /\ last[1].op = "ret"
           /\ stmt.cases = <<>> => Len(tr) = 2

\* a switch over 1 with the arms stan 0, ghost, stan 1, each with a print,
\* compiled: the ghost arm stands before the arm that matches
C15_Witness ==
    /\ Compiled
    /\ program = <<SwitchStmt(Num(1), <<SwitchCase(Num(0), <<PrintStmt(NumLit)>>, FALSE),
                                         SwitchCase(NoExpr, <<PrintStmt(NumLit)>>, TRUE),
                                         SwitchCase(Num(1), <<PrintStmt(NumLit)>>, FALSE)>>)>>
    /\ ArmBlock(program[1], 3) \in {Trace(1, Len(g.blocks))[j] :
                                        j \in 1..Len(Trace(1, Len(g.blocks)))}

(***************************************************************************)
(* Claims about the driver and the ErrorReporter.                          *)
(***************************************************************************)
\* C1: in main and in every compile path the parser runs only after a lexer
\* without error, the generator only after a parser without error, and the
\* IR is printed or written for the toolchain only if generate() returned
\* true.
C1_StagesGated ==
    /\ drv.parser # "none" => drv.lexer = "ok"
    /\ drv.codegen # "none" => drv.parser = "ok"
    /\ drv.irOut => drv.generated

\* compileToFile has returned: its lexer had an error, and neither the
\* parser nor the generator ran and no IR was written
C1_Witness ==
    /\ drv.pc = "exited"
    /\ drv.compileOnly
    /\ drv.lexer = "error" /\ drv.parser = "none" /\ drv.codegen = "none"
    /\ ~drv.irOut

\* C2: whenever the lexer, the parser or the generator of the driver has
\* hasError(), the ErrorReporter holds at least one error and hadError().
C2_EveryErrorReported ==
    "error" \in {drv.lexer, drv.parser, drv.codegen} =>
        errorCount(reporter) >= 1 /\ hadError(reporter)

\* C3: main returns nonzero whenever a lexer, parser or generator it ran on
\* the file had an error.
C3_ExitNonzeroOnError ==
    (drv.pc = "exited" /\ drv.stageError) => drv.exit # 0

(***************************************************************************)
(* The lexer as a state machine: scanTokens over the sources that are made *)
(* of at most MaxSourcePieces pieces, a piece being one character, the     *)
(* keyword fr, or a run of 19 digits at the edge of int64_t.               *)
(***************************************************************************)
SourcePieces ==
    {<<"a">>, <<"1">>, <<"\"">>, <<"\n">>, <<"@">>, <<".">>, <<" ">>, <<"{">>, <<"}">>,
     <<"=">>, <<"#">>, <<"f", "r">>, I64Max, [I64Max EXCEPT ![Len(I64Max)] = "8"]}

\* the pieces ps one after the other
RECURSIVE Concat(_)
Concat(ps) == IF ps = <<>> THEN <<>> ELSE Head(ps) \o Concat(Tail(ps))

Sources == {Concat(ps) : ps \in UNION {[1..n -> SourcePieces] : n \in 0..MaxSourcePieces}}

LexInit ==
    /\ lexer \in {Lexer(s) : s \in Sources}
    /\ parser = [Parser(<<"END_OF_FILE">>) EXCEPT !.pc = "none"]
    /\ program = <<>>
    /\ g = CodeGen
    /\ pc = "idle"
    /\ idx = 0
    /\ ok = FALSE
    /\ DriverIdle

\* one turn of the loop of Lexer::scanTokens; an exception that scanToken
\* lets through ends scanTokens, nothing in the program catches it
LexScanToken ==
    /\ lexer.pc = "scan"
    /\ ~isAtEnd(lexer)
    /\ \E l \in {scanToken([lexer EXCEPT !.start_ = lexer.current_])} :
           /\ lexer' = l
           /\ reporter' = IF l.errors > lexer.errors THEN lexerError(reporter)
                           ELSE reporter
    /\ UNCHANGED <<program, args, env, drv, parser>>
    /\ UNCHANGED genVars

\* the end of Lexer::scanTokens: the END_OF_FILE token and the return
LexEndOfFile ==
    /\ lexer.pc = "scan"
    /\ isAtEnd(lexer)
    /\ lexer' = [lexer EXCEPT
                    !.tokens_ = Append(@, [type |-> "END_OF_FILE", line |-> lexer.line_,
                                           at |-> lexer.current_]),
                    !.pc = "returned"]
    /\ UNCHANGED <<program, args, env, reporter, drv, parser>>
    /\ UNCHANGED genVars

LexNext == LexScanToken \/ LexEndOfFile

SpecLexer == LexInit /\ [][LexNext]_vars

\* the number of newlines among the first n characters of s
RECURSIVE Newlines(_, _)
Newlines(s, n) ==
    IF n = 0 THEN 0 ELSE Newlines(s, n - 1) + (IF s[n] = "\n" THEN 1 ELSE 0)

\* C17: the line of every token is 1 plus the number of newlines before the
\* first character of its text, also for a string that spans several lines.
C17_TokenLineIsLineOfFirstByte ==
    \A i \in 1..Len(lexer.tokens_) :
        lexer.tokens_[i].line = 1 + Newlines(lexer.source_, lexer.tokens_[i].at)

\* C18: scanTokens is never left by an exception, every lexical failure is
\* counted by the reporter and sets the flag, and when scanTokens returns
\* the whole source was read and END_OF_FILE is the last token and only
\* there.
C18_ScanTokensRunsToEnd ==
    /\ lexer.pc # "thrown"
    /\ lexer.hadError_ = (lexer.errors > 0)
    /\ errorCount(reporter) = lexer.errors
    /\ lexer.pc = "returned" =>
           /\ isAtEnd(lexer)
           /\ lexer.tokens_ # <<>>
           /\ \A i \in 1..Len(lexer.tokens_) :
                  (lexer.tokens_[i].type = "END_OF_FILE") = (i = Len(lexer.tokens_))
(***************************************************************************)
(* The parser as a state machine: parse() over the token lists that spell  *)
(* an expression tree of at most MaxExprNodes nodes without inserting any  *)
(* parenthesis: a leaf is an identifier or nothing at all (a missing       *)
(* operand), an inner node is a parenthesis, an array literal, a call, an  *)
(* index, one of the operators + * || =, or two expressions side by side.  *)
(***************************************************************************)
RECURSIVE TokenLists(_)
TokenLists(n) ==
    IF n = 1 THEN {<<"IDENTIFIER">>, <<>>}
    ELSE {<<"LPAREN">> \o s \o <<"RPAREN">> : s \in TokenLists(n - 1)}
         \cup {<<"LBRACKET">> \o s \o <<"RBRACKET">> : s \in TokenLists(n - 1)}
         \cup UNION {{s \o o \o t :
                         s \in TokenLists(i), t \in TokenLists(n - 1 - i),
                         o \in {<<"PLUS">>, <<"STAR">>, <<"OR">>, <<"ASSIGN">>, <<>>}}
                     : i \in 1..(n - 2)}
         \cup UNION {{s \o <<b[1]>> \o t \o <<b[2]>> :
                         s \in TokenLists(i), t \in TokenLists(n - 1 - i),
                         b \in {<<"LPAREN", "RPAREN">>, <<"LBRACKET", "RBRACKET">>}}
                     : i \in 1..(n - 2)}

ParseInit ==
    /\ parser \in {Parser(s \o <<"END_OF_FILE">>) :
                      s \in UNION {TokenLists(n) : n \in 1..MaxExprNodes}}
    /\ lexer = Lexer(<<>>)
    /\ program = <<>>
    /\ g = CodeGen
    /\ pc = "idle"
    /\ idx = 0
    /\ ok = FALSE
    /\ DriverIdle

\* one turn of the loop of Parser::parse in which declaration() returns
ParseDeclaration ==
    /\ parser.pc = "parse"
    /\ ~Parser_isAtEnd(parser)
    /\ \E r \in {declaration(parser)} :
           /\ ~r.p.thrown
           /\ parser' = [r.p EXCEPT !.statements = Append(@, r.e)]
           /\ reporter' = ParserErrors(reporter, Len(r.p.errors) - Len(parser.errors))
    /\ UNCHANGED <<program, args, env, drv, lexer>>
    /\ UNCHANGED genVars

\* one turn of the loop in which declaration() throws a ParseError: the
\* handler calls synchronize()
ParseSynchronize ==
    /\ parser.pc = "parse"
    /\ ~Parser_isAtEnd(parser)
    /\ \E r \in {declaration(parser)} :
           /\ r.p.thrown
           /\ parser' = synchronize([r.p EXCEPT !.thrown = FALSE])
           /\ reporter' = ParserErrors(reporter, Len(r.p.errors) - Len(parser.errors))
    /\ UNCHANGED <<program, args, env, drv, lexer>>
    /\ UNCHANGED genVars

\* the end of Parser::parse
ParseReturn ==
    /\ parser.pc = "parse"
    /\ Parser_isAtEnd(parser)
    /\ parser' = [parser EXCEPT !.pc = "returned"]
    /\ UNCHANGED <<program, args, env, reporter, drv, lexer>>
    /\ UNCHANGED genVars

ParseNext == ParseDeclaration \/ ParseSynchronize \/ ParseReturn

SpecParser == ParseInit /\ [][ParseNext]_vars
\* the level of an operator in the precedence table
OpLevel(op) == CHOOSE l \in 1..Len(LevelOps) : op \in LevelOps[l]

\* Whether the expression e, standing where an operator of a level below min
\* must not stand, respects the precedence table: the left operand of an
\* operator of level l stands at min = l, its right operand at min = l + 1,
\* an assignment only at min = 0, and what a node of a kind in W wraps (the
\* inside of a parenthesis, an argument, an index, an element) at min = 0.
RECURSIVE RespectsPrecedence(_, _, _)
RespectsPrecedence(e, min, W) ==
    LET Wrapped(k) == IF k \in W THEN 0 ELSE min
        All(es, m) == \A i \in 1..Len(es) : RespectsPrecedence(es[i], m, W)
    IN CASE e.k \in {"binary", "logical"} ->
                /\ OpLevel(e.op) >= min
                /\ RespectsPrecedence(e.left, OpLevel(e.op), W)
                /\ RespectsPrecedence(e.right, OpLevel(e.op) + 1, W)
         [] e.k \in {"assign", "compoundassign"} ->
                min = 0 /\ RespectsPrecedence(e.value, 0, W)
         [] e.k = "indexassign" ->
                /\ min = 0
                /\ All(<<e.object, e.value>>, 0)
                /\ RespectsPrecedence(e.index, Wrapped("index"), W)
         [] e.k = "grouping" -> RespectsPrecedence(e.expression, Wrapped("grouping"), W)
         [] e.k = "call" ->
                RespectsPrecedence(e.callee, min, W) /\ All(e.arguments, Wrapped("call"))
         [] e.k = "index" ->
                /\ RespectsPrecedence(e.object, min, W)
                /\ RespectsPrecedence(e.index, Wrapped("index"), W)
         [] e.k = "array" -> All(e.elements, Wrapped("array"))
         [] e.k = "unary" -> RespectsPrecedence(e.operand, min, W)
         [] OTHER -> TRUE

\* C19 as stated: in every expression the parser accepts, the left operand
\* of a Binary or Logical node has an operator of the same or a higher level
\* and the right operand one of a strictly higher level, and an operator of
\* a lower level or an assignment stands below such a node only inside a
\* Grouping, a call argument or an index.
C19_PrecedenceAsStated ==
    \A i \in 1..Len(parser.statements) :
        RespectsPrecedence(parser.statements[i].expression, 0, {"grouping", "call", "index"})

\* C19 as amended: the same, an element of an array literal being a fourth
\* place where an operator of a lower level or an assignment may stand.
C19_PrecedenceRespected ==
    \A i \in 1..Len(parser.statements) :
        RespectsPrecedence(parser.statements[i].expression, 0,
                           {"grouping", "call", "index", "array"})

\* a * [a + a] was parsed: the sum stands below the product, in an element
C19_Witness ==
    /\ parser.pc = "returned"
    /\ parser.statements =
           <<ExprStmt(BinaryOp(Ident("IDENTIFIER"), "STAR",
                               ArrayExpr(<<BinaryOp(Ident("IDENTIFIER"), "PLUS",
                                                    Ident("IDENTIFIER"))>>)))>>
\* the tokens of the parser before position i, and those after it up to the
\* end of file, each as a token list of its own
TokensBefore(i) == SubSeq(parser.tokens_, 1, i - 1) \o <<"END_OF_FILE">>
TokensAfter(i) == SubSeq(parser.tokens_, i + 1, Len(parser.tokens_))

\* whether the parsing function result r used up its token list without
\* reporting anything
ParsedWhole(r) == ~r.p.thrown /\ r.p.errors = <<>> /\ Parser_isAtEnd(r.p)

\* C20: when the tokens are lhs = rhs, lhs an operand of = that parses by
\* itself and rhs an expression that parses by itself, parse() returns one
\* statement: Assign for an Identifier lhs, IndexAssign for an Index lhs, both
\* without an error; for any other lhs the lhs itself, with the one error
\* "Invalid assignment target." at the = token, the error flag set, and all
\* tokens consumed by the one statement (no ParseError, no synchronize).
C20_AssignmentTarget ==
    parser.pc = "returned" =>
        \A i \in 1..Len(parser.tokens_) :
            (/\ parser.tokens_[i] = "ASSIGN"
             /\ ParsedWhole(logicalOr(Parser(TokensBefore(i))))
             /\ ParsedWhole(assignment(Parser(TokensAfter(i))))) =>
                LET lhs == logicalOr(Parser(TokensBefore(i))).e
                    rhs == assignment(Parser(TokensAfter(i))).e
                IN /\ parser.current_ = Len(parser.tokens_) - 1
                   /\ parser.hadError_ = (lhs.k \notin {"id", "index"})
                   /\ errorCount(reporter) = Len(parser.errors)
                   /\ CASE lhs.k = "id" ->
                              /\ parser.statements = <<ExprStmt(Assign(lhs.name, rhs))>>
                              /\ parser.errors = <<>>
                        [] lhs.k = "index" ->
                              /\ parser.statements =
                                     <<ExprStmt(IndexAssignExpr(lhs.object, lhs.index, rhs))>>
                              /\ parser.errors = <<>>
                        [] OTHER ->
                              /\ parser.statements = <<ExprStmt(lhs)>>
                              /\ parser.errors =
                                     <<[at |-> i, message |-> "Invalid assignment target."]>>

\* (a) = a was parsed: the parenthesis is returned and the error is at the =
C20_Witness ==
    /\ parser.pc = "returned"
    /\ parser.tokens_ = <<"LPAREN", "IDENTIFIER", "RPAREN", "ASSIGN", "IDENTIFIER",
                          "END_OF_FILE">>
    /\ parser.statements = <<ExprStmt(Grouping(Ident("IDENTIFIER")))>>
    /\ parser.errors = <<[at |-> 4, message |-> "Invalid assignment target."]>>
(***************************************************************************)
(* parse() over every list of at most MaxTokens tokens of the types below, *)
(* well-formed or not.                                                     *)
(***************************************************************************)
RecoverInit ==
    /\ parser \in {Parser(s \o <<"END_OF_FILE">>) :
                      s \in UNION {[1..n -> {"SAY", "FR", "MOG", "IDENTIFIER", "ASSIGN",
                                             "LBRACE", "RBRACE"}] : n \in 0..MaxTokens}}
    /\ lexer = Lexer(<<>>)
    /\ program = <<>>
    /\ g = CodeGen
    /\ pc = "idle"
    /\ idx = 0
    /\ ok = FALSE
    /\ DriverIdle

SpecRecover == RecoverInit /\ [][ParseNext]_vars

\* the position of the first token at or after position i that starts a
\* statement or ends the list
FirstStatementToken(i) ==
    CHOOSE j \in i..Len(parser.tokens_) :
        /\ parser.tokens_[j] \in StatementTokens \cup {"END_OF_FILE"}
        /\ \A m \in i..(j - 1) : parser.tokens_[m] \notin StatementTokens

\* C21: after a parse error the parser resumes at the first statement
\* keyword (or the end of the list) at or after the token at which the error
\* was raised.
C21_ResumesAtFirstKeyword ==
    [][(parser.pc = "parse" /\ parser'.pc = "parse"
          /\ parser'.statements = parser.statements) =>
       parser'.current_ + 1 =
           FirstStatementToken(parser'.errors[Len(parser'.errors)].at)]_vars
(***************************************************************************)
(* The lexer and the parser in a row, as main() runs them, over the        *)
(* sources that are one string literal of at most MaxRawLen characters.    *)
(***************************************************************************)
InterpInit ==
    /\ lexer \in {Lexer(<<"\"">> \o raw \o <<"\"">>) :
                     raw \in UNION {[1..n -> {"{", "}", "a", " "}] : n \in 0..MaxRawLen}}
    /\ parser = [Parser(<<"END_OF_FILE">>) EXCEPT !.pc = "none"]
    /\ program = <<>>
    /\ g = CodeGen
    /\ pc = "idle"
    /\ idx = 0
    /\ ok = FALSE
    /\ DriverIdle

\* main(): Parser parser(tokens), with the tokens that scanTokens returned
ParseBegin ==
    /\ lexer.pc = "returned"
    /\ ~lexer.hadError_
    /\ parser.pc = "none"
    /\ parser' = [Parser([i \in 1..Len(lexer.tokens_) |-> lexer.tokens_[i].type])
                     EXCEPT !.literals =
                         [i \in 1..Len(lexer.tokens_) |->
                             IF "literal" \in DOMAIN lexer.tokens_[i]
                             THEN lexer.tokens_[i].literal ELSE <<>>]]
    /\ UNCHANGED <<program, args, env, reporter, drv, lexer>>
    /\ UNCHANGED genVars

InterpNext ==
    \/ LexScanToken
    \/ LexEndOfFile
    \/ ParseBegin
    \/ ParseDeclaration
    \/ ParseSynchronize
    \/ ParseReturn

SpecInterp == InterpInit /\ [][InterpNext]_vars

\* C22: every interpolated string that the parser returns has one string
\* part more than it has expression parts.
C22_OneStringMoreThanExprs ==
    \A i \in 1..Len(parser.statements) :
        parser.statements[i].expression.k = "interp" =>
            Len(parser.statements[i].expression.stringParts) =
                Len(parser.statements[i].expression.exprParts) + 1

\* "}{}{}" was parsed: a stray closing brace, an empty interpolation and an
\* adjacent one at the end
C22_Witness ==
    /\ parser.pc = "returned"
    /\ lexer.source_ = <<"\"", "}", "{", "}", "{", "}", "\"">>
    /\ parser.statements =
           <<ExprStmt(InterpString(<<<<"}">>, <<>>, <<>>>>, <<Ident(<<>>), Ident(<<>>)>>))>>
(***************************************************************************)
(* The parser and the generator in a row, as main() runs them, over the    *)
(* token lists of one edge statement: each clause there or not, two commas *)
(* or three, and a body of at most MaxForBody statements.                  *)
(***************************************************************************)
ForBodies ==
    UNION {[1..n -> {<<"MOG">>, <<"SKIP">>, <<"SAY", "NUMBER">>}] : n \in 0..MaxForBody}

ForTokens ==
    {<<"EDGE", "LPAREN">> \o i \o <<"COMMA">> \o c \o <<"COMMA">> \o n \o x
        \o <<"RPAREN", "LBRACE">> \o Concat(b) \o <<"RBRACE", "END_OF_FILE">> :
        i \in {<<>>, <<"FR", "IDENTIFIER", "ASSIGN", "NUMBER">>},
        c \in {<<>>, <<"IDENTIFIER">>},
        n \in {<<>>, <<"IDENTIFIER", "ASSIGN", "NUMBER">>},
        x \in {<<>>, <<"COMMA">>},
        b \in ForBodies}

ForInit ==
    /\ parser \in {Parser(s) : s \in ForTokens}
    /\ lexer = Lexer(<<>>)
    /\ program = <<>>
    /\ g = CodeGen
    /\ pc = "idle"
    /\ idx = 0
    /\ ok = FALSE
    /\ DriverIdle

\* main(): codegen.generate(program), with the program that parse() returned
\* without error
GenProgram ==
    /\ parser.pc = "returned"
    /\ ~parser.hadError_
    /\ pc = "idle"
    /\ program' = parser.statements
    /\ pc' = "begin"
    /\ UNCHANGED <<g, idx, ok>>
    /\ UNCHANGED drvVars
    /\ UNCHANGED frontVars

ForNext ==
    \/ ParseDeclaration
    \/ ParseSynchronize
    \/ ParseReturn
    \/ GenProgram
    \/ GenBegin
    \/ GenStmt
    \/ GenEnd

SpecFor == ForInit /\ [][ForNext]_vars
\* whether the tokens are those of an edge statement with no clause and n
\* commas between the parentheses
EmptyFor(n) ==
    /\ Len(parser.tokens_) >= n + 4
    /\ SubSeq(parser.tokens_, 1, n + 4) =
           <<"EDGE", "LPAREN">> \o [i \in 1..n |-> "COMMA"] \o <<"RPAREN", "LBRACE">>

\* the block of the name
BlockNamed(name) == CHOOSE b \in 1..Len(g.blocks) : g.blocks[b].name = name

\* the first terminator of forbody
BodyExit == g.blocks[BlockNamed("forbody")].insts[FirstTerminator(BlockNamed("forbody"))]

\* Whether the statement was parsed without error into a loop without
\* clauses and, once generated, is an infinite loop: forcond is one branch
\* to forbody, the first terminator of forbody branches to forincr (or is a
\* mog), forincr is one branch to forcond, and only a mog branches to
\* forend.
AcceptedAsInfiniteLoop ==
    /\ parser.pc = "returned" =>
           /\ ~parser.hadError_
           /\ Len(parser.statements) = 1
           /\ parser.statements[1].k = "for"
           /\ parser.statements[1].initializer = NoStmt
           /\ parser.statements[1].condition = NoExpr
           /\ parser.statements[1].increment = NoExpr
    /\ pc = "done" =>
           /\ Len(g.blocks[BlockNamed("forcond")].insts) = 1
           /\ g.blocks[BlockNamed("forcond")].insts[1].op = "br"
           /\ g.blocks[BlockNamed("forcond")].insts[1].a = BlockNamed("forbody")
           /\ BodyExit.op = "br"
           /\ \/ BodyExit.a = BlockNamed("forincr")
              \/ BodyExit.tag = "mog"
           /\ Len(g.blocks[BlockNamed("forincr")].insts) = 1
           /\ g.blocks[BlockNamed("forincr")].insts[1].op = "br"
           /\ g.blocks[BlockNamed("forincr")].insts[1].a = BlockNamed("forcond")
           /\ \A x \in ModuleInsts :
                  (\/ x.inst.op = "br" /\ x.inst.a = BlockNamed("forend")
                   \/ x.inst.op = "condbr"
                          /\ BlockNamed("forend") \in {x.inst.a, x.inst.b})
                      => x.inst.tag = "mog"

\* C23 as stated: edge (,,,) { ... }, with three commas, is accepted without
\* error and lowered to an infinite loop that only a mog leaves.
C23_ThreeCommasInfiniteLoop == EmptyFor(3) => AcceptedAsInfiniteLoop

\* C23 as amended: edge (,,) { ... }, with the two commas that separate three
\* empty clauses, is accepted without error and lowered to an infinite loop
\* that only a mog leaves.
C23_TwoCommasInfiniteLoop == EmptyFor(2) => AcceptedAsInfiniteLoop

\* edge (,,) { say 1  mog } was parsed and generated
C23_Witness ==
    /\ pc = "done"
    /\ ~g.hadError_
    /\ parser.tokens_ = <<"EDGE", "LPAREN", "COMMA", "COMMA", "RPAREN", "LBRACE",
                          "SAY", "NUMBER", "MOG", "RBRACE", "END_OF_FILE">>
    /\ BodyExit.tag = "mog"
(***************************************************************************)
(* The ErrorReporter under any sequence of its operations, the list capped *)
(* at MaxReports entries.  last names the operation that was called last.  *)
(***************************************************************************)
ReporterInit ==
    /\ reporter = [last |-> "none"] @@ ErrorReporter
    /\ args = <<>>
    /\ env = NoEnv
    /\ drv = MainLocals
    /\ lexer = Lexer(<<>>)
    /\ parser = [Parser(<<"END_OF_FILE">>) EXCEPT !.pc = "none"]
    /\ program = <<>>
    /\ g = CodeGen
    /\ pc = "idle"
    /\ idx = 0
    /\ ok = FALSE

ReportLexerError ==
    /\ Len(reporter.errors_) < MaxReports
    /\ reporter' = [last |-> "lexerError"] @@ lexerError(reporter)
    /\ UNCHANGED <<program, args, env, drv>>
    /\ UNCHANGED genVars
    /\ UNCHANGED frontVars

ReportParserError ==
    /\ Len(reporter.errors_) < MaxReports
    /\ reporter' = [last |-> "parserError"] @@ parserError(reporter)
    /\ UNCHANGED <<program, args, env, drv>>
    /\ UNCHANGED genVars
    /\ UNCHANGED frontVars

ReportSemanticError ==
    /\ Len(reporter.errors_) < MaxReports
    /\ reporter' = [last |-> "semanticError"] @@ semanticError(reporter)
    /\ UNCHANGED <<program, args, env, drv>>
    /\ UNCHANGED genVars
    /\ UNCHANGED frontVars

ReportRuntimeError ==
    /\ Len(reporter.errors_) < MaxReports
    /\ reporter' = [last |-> "runtimeError"] @@ runtimeError(reporter)
    /\ UNCHANGED <<program, args, env, drv>>
    /\ UNCHANGED genVars
    /\ UNCHANGED frontVars

ReportLegacy ==
    /\ reporter' = [last |-> "report"] @@ report(reporter)
    /\ UNCHANGED <<program, args, env, drv>>
    /\ UNCHANGED genVars
    /\ UNCHANGED frontVars

ReportReset ==
    /\ reporter' = [last |-> "reset"] @@ reset(reporter)
    /\ UNCHANGED <<program, args, env, drv>>
    /\ UNCHANGED genVars
    /\ UNCHANGED frontVars

ReporterNext ==
    \/ ReportLexerError
    \/ ReportParserError
    \/ ReportSemanticError
    \/ ReportRuntimeError
    \/ ReportLegacy
    \/ ReportReset

SpecReporter == ReporterInit /\ [][ReporterNext]_vars

\* C24: reset() leaves no entry and both flags false; lexerError, parserError
\* and semanticError append one entry of their type and set hadError only;
\* runtimeError appends one entry and sets hadRuntimeError only; whatever is
\* called but reset, the entries so far stay first in the list, in their
\* order, and no flag goes back to false.
C24_ReporterDurable ==
    [][/\ reporter'.last = "reset" =>
              /\ errorCount(reporter') = 0
              /\ ~hadError(reporter')
              /\ ~hadRuntimeError(reporter')
       /\ reporter'.last \in {"lexerError", "parserError", "semanticError"} =>
              /\ reporter'.errors_ =
                     Append(reporter.errors_,
                            CASE reporter'.last = "lexerError" -> "LEXER_ERROR"
                              [] reporter'.last = "parserError" -> "PARSER_ERROR"
                              [] reporter'.last = "semanticError" -> "SEMANTIC_ERROR")
              /\ hadError(reporter')
              /\ hadRuntimeError(reporter') = hadRuntimeError(reporter)
       /\ reporter'.last = "runtimeError" =>
              /\ reporter'.errors_ = Append(reporter.errors_, "RUNTIME_ERROR")
              /\ hadRuntimeError(reporter')
              /\ hadError(reporter') = hadError(reporter)
       /\ reporter'.last # "reset" =>
              /\ IsPrefix(reporter.errors_, reporter'.errors_)
              /\ hadError(reporter) => hadError(reporter')
              /\ hadRuntimeError(reporter) => hadRuntimeError(reporter')]_vars

\* a runtime error was reported first and left hadError false, a lexer error
\* second
C24_Witness ==
    /\ reporter.last = "lexerError"
    /\ reporter.errors_ = <<"RUNTIME_ERROR", "RUNTIME_ERROR", "LEXER_ERROR">>
    /\ hadError(reporter)
    /\ hadRuntimeError(reporter)

\* C25: whenever the lowering of a top-level statement has returned, with or
\* without a generator error in a loop's condition or body, every loop frame
\* pushed by a goon or an edge has been popped: loopStack_ is as generate()
\* found it, empty.
C25_LoopStackBalanced ==
    pc \in {"pass2", "done"} => g.loopStack_ = <<>>

Predeclared(i) == Cardinality({j \in 1..i : program[j].k = "funcdef"})

\* the entry blocks of function f, and those that the lowering of the
\* definition at position i created
EntryBlocksOf(f) ==
    {b \in 1..Len(g.blocks) : g.blocks[b].name = "entry" /\ g.blocks[b].parent = f}
EntryBlocksBy(i) ==
    {b \in 1..Len(g.blocks) : g.blocks[b].name = "entry" /\ g.blocks[b].owner = <<i>>}

\* C28: after a successful generate(), the function predeclared for a
\* top-level definition has exactly one entry block, the one that the
\* lowering of that definition created, also when two definitions have the
\* same name.
C28_OneBodyPerDefinition ==
    (pc = "done" /\ ok) =>
        \A i \in 1..Len(program) :
            program[i].k = "funcdef" =>
                /\ Cardinality(EntryBlocksOf(Predeclared(i))) = 1
                /\ EntryBlocksOf(Predeclared(i)) = EntryBlocksBy(i)

(***************************************************************************)
(* The cells that loads read, path by path.                                *)
(***************************************************************************)
\* programs of a declaration of x, assignments of a number and of a string
\* to x and uses of x, at top level and in the bodies of lowkey and goon
InitJoin ==
    GenInit(Programs([leaves |-> {VarDeclStmt("x", NumLit),
                                  ExprStmt(Assign("x", StrLit("a"))),
                                  PrintStmt(Ident("x"))},
                      kinds |-> {"if", "while"}], MaxJoinNodes, MaxJoinDepth))
SpecJoin == InitJoin /\ [][Next]_vars

\* the blocks a block branches to
Successors(b) ==
    LET t == FirstTerminator(b)
    IN IF t = 0 THEN {}
       ELSE LET i == g.blocks[b].insts[t]
            IN CASE i.op = "br" -> {i.a}
                 [] i.op = "condbr" -> {i.a, i.b}
                 [] OTHER -> {}

\* the cells and the types of their contents after instruction i, when
\* stored holds them before, and after the instructions of block b from the
\* j-th on
StoredBy(i, stored) ==
    IF i.op = "store" THEN {s \in stored : s[1] # i.a} \cup {<<i.a, i.ty>>}
    ELSE stored

RECURSIVE StoredAfter(_, _, _)
StoredAfter(b, j, stored) ==
    IF j > Len(g.blocks[b].insts) \/ IsTerminator(g.blocks[b].insts[j]) THEN stored
    ELSE StoredAfter(b, j + 1, StoredBy(g.blocks[b].insts[j], stored))

\* the loads of block b that read a cell which holds nothing, or a value of
\* another type than the load's, when stored holds the cells before b
RECURSIVE UnstoredIn(_, _, _)
UnstoredIn(b, j, stored) ==
    IF j > Len(g.blocks[b].insts) \/ IsTerminator(g.blocks[b].insts[j]) THEN {}
    ELSE LET i == g.blocks[b].insts[j]
         IN (IF i.op = "load" /\ <<i.a, i.ty>> \notin stored THEN {i.id} ELSE {})
            \cup UnstoredIn(b, j + 1, StoredBy(i, stored))

\* the same along every path from block b on that enters no block of seen
\* and no block twice
RECURSIVE UnstoredFrom(_, _, _)
UnstoredFrom(b, seen, stored) ==
    UnstoredIn(b, 1, stored)
    \cup UNION {UnstoredFrom(s, seen \cup {b}, StoredAfter(b, 1, stored)) :
                   s \in Successors(b) \ (seen \cup {b})}

\* the loads of the module that, on some path from the entry of their
\* function, read a cell that no store of a value of their type has filled
UnstoredLoads ==
    UNION {UnstoredFrom(Head(g.funcs[f].bbs), {}, {}) :
               f \in {h \in 1..Len(g.funcs) : g.funcs[h].bbs # <<>>}}

\* C29: in the code of a program that compiles, on every path from the entry
\* of a function to a load of a variable, a store has filled the cell that
\* the load reads with a value of the type of the load, also when a string
\* is assigned to a number variable in a branch or in a loop body and the
\* variable is read after it.
C29_LoadsReadStoredCells ==
    Compiled => UnstoredLoads = {}

(***************************************************************************)
(* Compound assignment and increment.                                      *)
(***************************************************************************)
\* programs of declarations of x as a number and as a string, x += 1, x++
\* and uses of x, in nested blocks
InitCompound ==
    GenInit(Programs([leaves |-> {VarDeclStmt("x", NumLit),
                                  VarDeclStmt("x", StrLit("a")),
                                  ExprStmt(CompoundAssign("x", "PLUS_EQ", NumLit)),
                                  ExprStmt(Increment("x", "PLUS_PLUS", FALSE)),
                                  PrintStmt(Ident("x"))},
                      kinds |-> {"block"}], MaxCompoundNodes, MaxCompoundDepth))
SpecCompound == InitCompound /\ [][Next]_vars

\* the alloca instruction that created cell a
CellOf(a) == CHOOSE x \in ModuleInsts : x.inst.op = "alloca" /\ x.inst.id = a

\* C30: every load and every store of a variable has the type of the cell it
\* accesses; x += e and x++ are lowered to a load and a store of a number
\* only for a cell that holds a number, and are a generator error otherwise.
C30_AccessesUseCellType ==
    \A x \in ModuleInsts :
        x.inst.op \in {"load", "store"} => CellOf(x.inst.a).inst.ty = x.inst.ty
====
